---- MODULE Spec2Model ----
(***************************************************************************)
(* CspDispatch (hybrid/dispatch/power_sources/csp_dispatch.py): the        *)
(* per-period blocks of the concentrating-solar-power dispatch MILP and    *)
(* the constraints that link consecutive periods.                          *)
(*                                                                         *)
(* A behaviour is one schedule.  The parameters of the constructed model   *)
(* are the initial state; its constraints, the linking constraints         *)
(* included, are fixed at construction.  Each step takes the next          *)
(* period block: its per-period parameters are set and its variables are   *)
(* assigned, and the assignments a step may choose are exactly those that  *)
(* satisfy the block's variable domains, its constraints and the linking   *)
(* constraints of that period.  The states reachable after t steps are     *)
(* therefore the feasible values of blocks[t], blocks[t-1] being the       *)
(* state before the step.                                                  *)
(*                                                                         *)
(* Units.  Powers [MW] and energies [MWh] are integers on the grid         *)
(* 0..MaxVal.  Dimensionless fractions (efficiencies, loss coefficients)   *)
(* are numerators over FracDen; every constraint in which one occurs is    *)
(* stated multiplied through by the (positive) denominators.               *)
(***************************************************************************)
EXTENDS Integers, Sequences, FiniteSets, TLC

VARIABLES
    par,                                  \* broadcast block parameters
    time_duration,                        \* per-period parameter of blocks[t]
    available_thermal_generation,         \* per-period parameter of blocks[t]
    cycle_ambient_efficiency_correction,  \* per-period parameter of blocks[t] (over FracDen)
    condenser_losses,                     \* per-period parameter of blocks[t] (over FracDen)
    model,                                \* horizon-level initial-condition parameters
    t,                                    \* index of the last period block assigned (0: none)
    csp,                                  \* blocks[t]: the values of its variables
    system_model,                         \* self._system_model: what the updates read from the plant
    raised                                \* the exception the last call ended with ("None": returned)

vars == << par, time_duration, available_thermal_generation,
           cycle_ambient_efficiency_correction, condenser_losses,
           model, t, csp, system_model, raised >>

(***************************************************************************)
(* Bounds of the model.                                                    *)
(***************************************************************************)
Horizon == 3
MaxVal == 5
FracDen == 2

index_set == 1..Horizon
first == 1
Reals0 == 0..MaxVal
\* grid of the two outputs, which sum several terms
Outputs == 0..(3 * MaxVal)
Binary == {0, 1}
NoBlock == [unsolved |-> TRUE]
\* a plant of which the schedule reads nothing
NoSystemModel == [unread |-> TRUE]

Bounded(lo, hi) == {x \in Reals0 : lo <= x /\ x <= hi}

(***************************************************************************)
(* Variables of one block: domain and bounds of each.                      *)
(***************************************************************************)
_create_storage_variables_unbounded(p) ==
    [ thermal_energy_storage          |-> Reals0,
      previous_thermal_energy_storage |-> Reals0 ]

_create_storage_variables(p) ==
    [ thermal_energy_storage          |-> Bounded(0, p.storage_capacity),
      previous_thermal_energy_storage |-> Bounded(0, p.storage_capacity) ]

_create_receiver_variables(p) ==
    [ receiver_startup_inventory          |-> Reals0,
      receiver_thermal_power              |-> Reals0,
      receiver_startup_consumption        |-> Reals0,
      is_field_generating                 |-> Binary,
      is_field_starting                   |-> Binary,
      incur_field_start                   |-> Binary,
      previous_receiver_startup_inventory |-> Reals0,
      was_field_generating                |-> Binary,
      was_field_starting                  |-> Binary ]

_create_cycle_variables(p) ==
    [ system_load                      |-> Outputs,
      cycle_startup_inventory          |-> Reals0,
      cycle_generation                 |-> Outputs,
      cycle_thermal_ramp               |-> Bounded(0, p.maximum_cycle_thermal_power),
      cycle_thermal_power              |-> Bounded(0, p.maximum_cycle_thermal_power),
      is_cycle_generating              |-> Binary,
      is_cycle_starting                |-> Binary,
      incur_cycle_start                |-> Binary,
      previous_cycle_startup_inventory |-> Reals0,
      previous_cycle_thermal_power     |-> Bounded(0, p.maximum_cycle_thermal_power),
      was_cycle_generating             |-> Binary,
      was_cycle_starting               |-> Binary ]

(***************************************************************************)
(* Constraints of one block.                                               *)
(***************************************************************************)
storage_inventory_per_hour(p, v) ==
    v.thermal_energy_storage - v.previous_thermal_energy_storage =
        v.receiver_thermal_power
        - (p.allowable_cycle_startup_power * v.is_cycle_starting
           + v.cycle_thermal_power)

\* the balance without the heat drawn by a starting cycle
storage_inventory_without_startup(p, v) ==
    v.thermal_energy_storage - v.previous_thermal_energy_storage =
        p.time_duration * (v.receiver_thermal_power - v.cycle_thermal_power)

storage_inventory(p, v) ==
    v.thermal_energy_storage - v.previous_thermal_energy_storage =
        p.time_duration * (v.receiver_thermal_power
                           - (p.allowable_cycle_startup_power * v.is_cycle_starting
                              + v.cycle_thermal_power))

receiver_startup_inventory_balance_at_allowable(p, v) ==
    v.receiver_startup_inventory <=
        v.previous_receiver_startup_inventory
        + p.time_duration * p.allowable_receiver_startup_power

receiver_startup_inventory_balance(p, v) ==
    v.receiver_startup_inventory <=
        v.previous_receiver_startup_inventory
        + p.time_duration * v.receiver_startup_consumption

receiver_startup_inventory_no_reset(p, v) ==
    v.receiver_startup_inventory <= p.receiver_required_startup_energy

receiver_startup_inventory_reset(p, v) ==
    v.receiver_startup_inventory <= p.receiver_required_startup_energy * v.is_field_starting

receiver_operation_startup_unscaled(p, v) ==
    v.is_field_generating <=
        v.receiver_startup_inventory + v.was_field_generating

\* is_field_generating <= inventory / required + was_field_generating,
\* times required (> 0)
receiver_operation_startup(p, v) ==
    v.is_field_generating * p.receiver_required_startup_energy <=
        v.receiver_startup_inventory
        + v.was_field_generating * p.receiver_required_startup_energy

receiver_startup_delay(p, v) ==
    v.is_field_starting + v.was_field_generating <= 1

receiver_startup_limit(p, v) ==
    v.receiver_startup_consumption <=
        p.allowable_receiver_startup_power * v.is_field_starting

receiver_startup_cut_dropped(p, v) ==
    v.is_field_starting <= 1

\* is_field_starting <= available / minimum, times minimum (> 0)
receiver_startup_cut(p, v) ==
    v.is_field_starting * p.minimum_receiver_power <= p.available_thermal_generation

receiver_energy_balance(p, v) ==
    p.available_thermal_generation >=
        v.receiver_thermal_power + v.receiver_startup_consumption

maximum_field_generation_unswitched(p, v) ==
    v.receiver_thermal_power <= p.available_thermal_generation

maximum_field_generation(p, v) ==
    v.receiver_thermal_power <= p.available_thermal_generation * v.is_field_generating

minimum_field_generation(p, v) ==
    v.receiver_thermal_power >= p.minimum_receiver_power * v.is_field_generating

\* is_field_generating <= available / minimum, times minimum (> 0)
receiver_generation_cut(p, v) ==
    v.is_field_generating * p.minimum_receiver_power <= p.available_thermal_generation

field_startup_reversed(p, v) ==
    v.incur_field_start >= v.was_field_starting - v.is_field_starting

field_startup(p, v) ==
    v.incur_field_start >= v.is_field_starting - v.was_field_starting

cycle_startup_inventory_balance(p, v) ==
    v.cycle_startup_inventory <=
        v.previous_cycle_startup_inventory
        + p.time_duration * p.allowable_cycle_startup_power * v.is_cycle_starting

cycle_startup_inventory_no_reset(p, v) ==
    v.cycle_startup_inventory <= p.cycle_required_startup_energy

cycle_startup_inventory_reset(p, v) ==
    v.cycle_startup_inventory <= p.cycle_required_startup_energy * v.is_cycle_starting

cycle_operation_startup_unscaled(p, v) ==
    v.is_cycle_generating <=
        v.cycle_startup_inventory + v.was_cycle_generating

\* is_cycle_generating <= inventory / required + was_cycle_generating,
\* times required (> 0)
cycle_operation_startup(p, v) ==
    v.is_cycle_generating * p.cycle_required_startup_energy <=
        v.cycle_startup_inventory
        + v.was_cycle_generating * p.cycle_required_startup_energy

cycle_startup_delay_product(p, v) ==
    v.is_cycle_starting * v.was_cycle_generating <= 1

cycle_startup_delay(p, v) ==
    v.is_cycle_starting + v.was_cycle_generating <= 1

maximum_cycle_thermal_consumption(p, v) ==
    v.cycle_thermal_power <= p.maximum_cycle_thermal_power * v.is_cycle_generating

minimum_cycle_thermal_consumption(p, v) ==
    v.cycle_thermal_power >= p.minimum_cycle_thermal_power * v.is_cycle_generating

cycle_performance_curve_inverted(p, v) ==
    v.cycle_generation * p.cycle_ambient_efficiency_correction * FracDen =
        p.cycle_nominal_efficiency
        * (p.cycle_performance_slope * v.cycle_thermal_power
           + (p.maximum_cycle_power * FracDen
              - p.cycle_performance_slope * p.maximum_cycle_thermal_power)
             * v.is_cycle_generating)

\* generation = (correction / nominal) * (slope * thermal
\*              + (maximum_power - slope * maximum_thermal) * is_generating),
\* with correction, nominal and slope numerators over FracDen, times
\* nominal * FracDen (> 0)
cycle_performance_curve(p, v) ==
    v.cycle_generation * p.cycle_nominal_efficiency * FracDen =
        p.cycle_ambient_efficiency_correction
        * (p.cycle_performance_slope * v.cycle_thermal_power
           + (p.maximum_cycle_power * FracDen
              - p.cycle_performance_slope * p.maximum_cycle_thermal_power)
             * v.is_cycle_generating)

cycle_thermal_ramp_constraint_summed(p, v) ==
    v.cycle_thermal_ramp >= v.cycle_thermal_power + v.previous_cycle_thermal_power

cycle_thermal_ramp_constraint(p, v) ==
    v.cycle_thermal_ramp >= v.cycle_thermal_power - v.previous_cycle_thermal_power

cycle_startup(p, v) ==
    v.incur_cycle_start >= v.is_cycle_starting - v.was_cycle_starting

generation_balance_not_amortized(p, v) ==
    v.system_load * FracDen * FracDen =
        v.cycle_generation * p.condenser_losses * FracDen
        + p.receiver_pumping_losses * FracDen
          * (v.receiver_thermal_power + v.receiver_startup_consumption)
        + p.cycle_pumping_losses * FracDen
          * (v.cycle_thermal_power
             + p.allowable_cycle_startup_power * v.is_cycle_starting)
        + p.field_track_losses * FracDen * FracDen * v.is_field_generating
        + p.field_startup_losses * FracDen * FracDen * v.is_field_starting

\* the three loss coefficients are numerators over FracDen; both sides are
\* times FracDen * FracDen * time_duration (> 0)
generation_balance(p, v) ==
    v.system_load * FracDen * FracDen * p.time_duration =
        p.time_duration
        * (v.cycle_generation * p.condenser_losses * FracDen
           + p.receiver_pumping_losses * FracDen
             * (v.receiver_thermal_power + v.receiver_startup_consumption)
           + p.cycle_pumping_losses * FracDen
             * (v.cycle_thermal_power
                + p.allowable_cycle_startup_power * v.is_cycle_starting)
           + p.field_track_losses * FracDen * FracDen * v.is_field_generating)
        + p.field_startup_losses * FracDen * FracDen * v.is_field_starting

(***************************************************************************)
(* Linking constraints.  A constraint is the equality lhs == rhs of two    *)
(* references; a reference names a variable of a block (blk in index_set)  *)
(* or a parameter of the model (blk = Model).                              *)
(***************************************************************************)
Model == 0

Ref(blk, var) == [blk |-> blk, var |-> var]

tes_linking_rule_to_initial(tt) ==
    [ lhs |-> Ref(tt, "previous_thermal_energy_storage"),
      rhs |-> Ref(Model, "initial_thermal_energy_storage") ]

tes_linking_rule(tt) ==
    IF tt = first
    THEN [lhs |-> Ref(tt, "previous_thermal_energy_storage"),
          rhs |-> Ref(Model, "initial_thermal_energy_storage")]
    ELSE [lhs |-> Ref(tt, "previous_thermal_energy_storage"),
          rhs |-> Ref(tt - 1, "thermal_energy_storage")]

receiver_startup_inventory_linking_rule(tt) ==
    IF tt = first
    THEN [lhs |-> Ref(tt, "previous_receiver_startup_inventory"),
          rhs |-> Ref(Model, "initial_receiver_startup_inventory")]
    ELSE [lhs |-> Ref(tt, "previous_receiver_startup_inventory"),
          rhs |-> Ref(tt - 1, "receiver_startup_inventory")]

field_generating_linking_rule(tt) ==
    IF tt = first
    THEN [lhs |-> Ref(tt, "was_field_generating"),
          rhs |-> Ref(Model, "is_field_generating_initial")]
    ELSE [lhs |-> Ref(tt, "was_field_generating"),
          rhs |-> Ref(tt - 1, "is_field_generating")]

field_starting_linking_rule(tt) ==
    IF tt = first
    THEN [lhs |-> Ref(tt, "was_field_starting"),
          rhs |-> Ref(Model, "is_field_starting_initial")]
    ELSE [lhs |-> Ref(tt, "was_field_starting"),
          rhs |-> Ref(tt - 1, "is_field_starting")]

cycle_startup_inventory_linking_rule(tt) ==
    IF tt = first
    THEN [lhs |-> Ref(tt, "previous_cycle_startup_inventory"),
          rhs |-> Ref(Model, "initial_cycle_startup_inventory")]
    ELSE [lhs |-> Ref(tt, "previous_cycle_startup_inventory"),
          rhs |-> Ref(tt - 1, "cycle_startup_inventory")]

cycle_thermal_power_linking_rule(tt) ==
    IF tt = first
    THEN [lhs |-> Ref(tt, "previous_cycle_thermal_power"),
          rhs |-> Ref(Model, "initial_cycle_thermal_power")]
    ELSE [lhs |-> Ref(tt, "previous_cycle_thermal_power"),
          rhs |-> Ref(tt - 1, "cycle_thermal_power")]

cycle_generating_linking_rule(tt) ==
    IF tt = first
    THEN [lhs |-> Ref(tt, "was_cycle_generating"),
          rhs |-> Ref(Model, "is_cycle_generating_initial")]
    ELSE [lhs |-> Ref(tt, "was_cycle_generating"),
          rhs |-> Ref(tt - 1, "is_cycle_generating")]

cycle_starting_linking_rule(tt) ==
    IF tt = first
    THEN [lhs |-> Ref(tt, "was_cycle_starting"),
          rhs |-> Ref(Model, "is_cycle_starting_initial")]
    ELSE [lhs |-> Ref(tt, "was_cycle_starting"),
          rhs |-> Ref(tt - 1, "is_cycle_starting")]

\* pyomo.Constraint(index_set, rule): one constraint per index
IndexedConstraint(name, rule) ==
    { [name |-> name, t |-> tt, lhs |-> rule[tt].lhs, rhs |-> rule[tt].rhs] :
        tt \in index_set }

_create_storage_linking_constraints ==
    IndexedConstraint("tes_linking",
        [tt \in index_set |-> tes_linking_rule(tt)])

_create_receiver_linking_constraints ==
    IndexedConstraint("receiver_startup_inventory_linking",
        [tt \in index_set |-> receiver_startup_inventory_linking_rule(tt)])
    \cup IndexedConstraint("field_generating_linking",
        [tt \in index_set |-> field_generating_linking_rule(tt)])
    \cup IndexedConstraint("field_starting_linking",
        [tt \in index_set |-> field_starting_linking_rule(tt)])

_create_cycle_linking_constraints ==
    IndexedConstraint("cycle_startup_inventory_linking",
        [tt \in index_set |-> cycle_startup_inventory_linking_rule(tt)])
    \cup IndexedConstraint("cycle_thermal_power_linking",
        [tt \in index_set |-> cycle_thermal_power_linking_rule(tt)])
    \cup IndexedConstraint("cycle_generating_linking",
        [tt \in index_set |-> cycle_generating_linking_rule(tt)])
    \cup IndexedConstraint("cycle_starting_linking",
        [tt \in index_set |-> cycle_starting_linking_rule(tt)])

_create_linking_constraints ==
    _create_storage_linking_constraints
        \cup _create_receiver_linking_constraints
        \cup _create_cycle_linking_constraints

(***************************************************************************)
(* Values of references and feasibility of a block assignment.             *)
(***************************************************************************)
\* value of a reference while block tt is being assigned: v holds the
\* variables of blocks[tt] (as far as assigned), csp those of blocks[tt - 1]
Value(ref, tt, v) ==
    CASE ref.blk = Model  -> model[ref.var]
      [] ref.blk = tt     -> v[ref.var]
      [] ref.blk = tt - 1 -> csp[ref.var]

LinkHolds(c, tt, v) == Value(c.lhs, tt, v) = Value(c.rhs, tt, v)

\* the parameters of a block: the broadcast ones and its per-period ones
BlockParams(dt, atg, corr, cond) ==
    par @@ [ time_duration                       |-> dt,
             available_thermal_generation        |-> atg,
             cycle_ambient_efficiency_correction |-> corr,
             condenser_losses                    |-> cond ]

\* the linking constraints of period tt on variable var hold when it is x
Linked(tt, var, x) ==
    \A c \in _create_linking_constraints :
        (c.t = tt /\ c.lhs = Ref(tt, var)) => LinkHolds(c, tt, (var :> x))

\* blocks[tt], with parameters p, is assigned a solution: every variable
\* takes a value of its domain within its bounds, and every constraint of the
\* block and every linking constraint of period tt holds.  Each constraint
\* is stated as soon as the variables it reads are chosen.
SolveBlock(tt, p) ==
    \E previous_thermal_energy_storage \in _create_storage_variables(p).previous_thermal_energy_storage :
     /\ Linked(tt, "previous_thermal_energy_storage", previous_thermal_energy_storage)
     /\ \E previous_receiver_startup_inventory \in _create_receiver_variables(p).previous_receiver_startup_inventory :
       /\ Linked(tt, "previous_receiver_startup_inventory", previous_receiver_startup_inventory)
       /\ \E was_field_generating \in _create_receiver_variables(p).was_field_generating :
         /\ Linked(tt, "was_field_generating", was_field_generating)
         /\ \E was_field_starting \in _create_receiver_variables(p).was_field_starting :
           /\ Linked(tt, "was_field_starting", was_field_starting)
           /\ \E previous_cycle_startup_inventory \in _create_cycle_variables(p).previous_cycle_startup_inventory :
             /\ Linked(tt, "previous_cycle_startup_inventory", previous_cycle_startup_inventory)
             /\ \E previous_cycle_thermal_power \in _create_cycle_variables(p).previous_cycle_thermal_power :
               /\ Linked(tt, "previous_cycle_thermal_power", previous_cycle_thermal_power)
               /\ \E was_cycle_generating \in _create_cycle_variables(p).was_cycle_generating :
                 /\ Linked(tt, "was_cycle_generating", was_cycle_generating)
                 /\ \E was_cycle_starting \in _create_cycle_variables(p).was_cycle_starting :
                   /\ Linked(tt, "was_cycle_starting", was_cycle_starting)
                   /\ \E is_field_starting \in _create_receiver_variables(p).is_field_starting :
                     /\ receiver_startup_delay(p, [is_field_starting |-> is_field_starting,
                                                   was_field_generating |-> was_field_generating])
                     /\ receiver_startup_cut(p, [is_field_starting |-> is_field_starting])
                     /\ \E receiver_startup_consumption \in _create_receiver_variables(p).receiver_startup_consumption :
                       /\ receiver_startup_limit(p, [receiver_startup_consumption |-> receiver_startup_consumption,
                                                     is_field_starting |-> is_field_starting])
                       /\ \E receiver_startup_inventory \in _create_receiver_variables(p).receiver_startup_inventory :
                         /\ receiver_startup_inventory_balance(p, [receiver_startup_inventory |-> receiver_startup_inventory,
                                                                   previous_receiver_startup_inventory |-> previous_receiver_startup_inventory,
                                                                   receiver_startup_consumption |-> receiver_startup_consumption])
                         /\ receiver_startup_inventory_reset(p, [receiver_startup_inventory |-> receiver_startup_inventory,
                                                                 is_field_starting |-> is_field_starting])
                         /\ \E is_field_generating \in _create_receiver_variables(p).is_field_generating :
                           /\ receiver_operation_startup(p, [is_field_generating |-> is_field_generating,
                                                             receiver_startup_inventory |-> receiver_startup_inventory,
                                                             was_field_generating |-> was_field_generating])
                           /\ receiver_generation_cut(p, [is_field_generating |-> is_field_generating])
                           /\ \E receiver_thermal_power \in _create_receiver_variables(p).receiver_thermal_power :
                             /\ receiver_energy_balance(p, [receiver_thermal_power |-> receiver_thermal_power,
                                                            receiver_startup_consumption |-> receiver_startup_consumption])
                             /\ maximum_field_generation(p, [receiver_thermal_power |-> receiver_thermal_power,
                                                             is_field_generating |-> is_field_generating])
                             /\ minimum_field_generation(p, [receiver_thermal_power |-> receiver_thermal_power,
                                                             is_field_generating |-> is_field_generating])
                             /\ \E is_cycle_starting \in _create_cycle_variables(p).is_cycle_starting :
                               /\ cycle_startup_delay(p, [is_cycle_starting |-> is_cycle_starting,
                                                          was_cycle_generating |-> was_cycle_generating])
                               /\ \E cycle_startup_inventory \in _create_cycle_variables(p).cycle_startup_inventory :
                                 /\ cycle_startup_inventory_balance(p, [cycle_startup_inventory |-> cycle_startup_inventory,
                                                                        previous_cycle_startup_inventory |-> previous_cycle_startup_inventory,
                                                                        is_cycle_starting |-> is_cycle_starting])
                                 /\ cycle_startup_inventory_reset(p, [cycle_startup_inventory |-> cycle_startup_inventory,
                                                                      is_cycle_starting |-> is_cycle_starting])
                                 /\ \E is_cycle_generating \in _create_cycle_variables(p).is_cycle_generating :
                                   /\ cycle_operation_startup(p, [is_cycle_generating |-> is_cycle_generating,
                                                                  cycle_startup_inventory |-> cycle_startup_inventory,
                                                                  was_cycle_generating |-> was_cycle_generating])
                                   /\ \E cycle_thermal_power \in _create_cycle_variables(p).cycle_thermal_power :
                                     /\ maximum_cycle_thermal_consumption(p, [cycle_thermal_power |-> cycle_thermal_power,
                                                                              is_cycle_generating |-> is_cycle_generating])
                                     /\ minimum_cycle_thermal_consumption(p, [cycle_thermal_power |-> cycle_thermal_power,
                                                                              is_cycle_generating |-> is_cycle_generating])
                                     /\ \E thermal_energy_storage \in _create_storage_variables(p).thermal_energy_storage :
                                       /\ storage_inventory(p, [thermal_energy_storage |-> thermal_energy_storage,
                                                                previous_thermal_energy_storage |-> previous_thermal_energy_storage,
                                                                receiver_thermal_power |-> receiver_thermal_power,
                                                                is_cycle_starting |-> is_cycle_starting,
                                                                cycle_thermal_power |-> cycle_thermal_power])
                                       /\ \E cycle_generation \in _create_cycle_variables(p).cycle_generation :
                                         /\ cycle_performance_curve(p, [cycle_generation |-> cycle_generation,
                                                                        cycle_thermal_power |-> cycle_thermal_power,
                                                                        is_cycle_generating |-> is_cycle_generating])
                                         /\ \E system_load \in _create_cycle_variables(p).system_load :
                                           /\ generation_balance(p, [system_load |-> system_load,
                                                                     cycle_generation |-> cycle_generation,
                                                                     receiver_thermal_power |-> receiver_thermal_power,
                                                                     receiver_startup_consumption |-> receiver_startup_consumption,
                                                                     cycle_thermal_power |-> cycle_thermal_power,
                                                                     is_cycle_starting |-> is_cycle_starting,
                                                                     is_field_generating |-> is_field_generating,
                                                                     is_field_starting |-> is_field_starting])
                                           /\ \E incur_field_start \in _create_receiver_variables(p).incur_field_start :
                                             /\ field_startup(p, [incur_field_start |-> incur_field_start,
                                                                  is_field_starting |-> is_field_starting,
                                                                  was_field_starting |-> was_field_starting])
                                             /\ \E incur_cycle_start \in _create_cycle_variables(p).incur_cycle_start :
                                               /\ cycle_startup(p, [incur_cycle_start |-> incur_cycle_start,
                                                                    is_cycle_starting |-> is_cycle_starting,
                                                                    was_cycle_starting |-> was_cycle_starting])
                                               /\ \E cycle_thermal_ramp \in _create_cycle_variables(p).cycle_thermal_ramp :
                                                 /\ cycle_thermal_ramp_constraint(p, [cycle_thermal_ramp |-> cycle_thermal_ramp,
                                                                                      cycle_thermal_power |-> cycle_thermal_power,
                                                                                      previous_cycle_thermal_power |-> previous_cycle_thermal_power])
                                                 /\ csp' = [previous_thermal_energy_storage |-> previous_thermal_energy_storage,
                                                            previous_receiver_startup_inventory |-> previous_receiver_startup_inventory,
                                                            was_field_generating |-> was_field_generating,
                                                            was_field_starting |-> was_field_starting,
                                                            previous_cycle_startup_inventory |-> previous_cycle_startup_inventory,
                                                            previous_cycle_thermal_power |-> previous_cycle_thermal_power,
                                                            was_cycle_generating |-> was_cycle_generating,
                                                            was_cycle_starting |-> was_cycle_starting,
                                                            is_field_starting |-> is_field_starting,
                                                            receiver_startup_consumption |-> receiver_startup_consumption,
                                                            receiver_startup_inventory |-> receiver_startup_inventory,
                                                            is_field_generating |-> is_field_generating,
                                                            receiver_thermal_power |-> receiver_thermal_power,
                                                            is_cycle_starting |-> is_cycle_starting,
                                                            cycle_startup_inventory |-> cycle_startup_inventory,
                                                            is_cycle_generating |-> is_cycle_generating,
                                                            cycle_thermal_power |-> cycle_thermal_power,
                                                            thermal_energy_storage |-> thermal_energy_storage,
                                                            cycle_generation |-> cycle_generation,
                                                            system_load |-> system_load,
                                                            incur_field_start |-> incur_field_start,
                                                            incur_cycle_start |-> incur_cycle_start,
                                                            cycle_thermal_ramp |-> cycle_thermal_ramp]

(***************************************************************************)
(* Parameter values the model is built with.                               *)
(***************************************************************************)
ParameterSets ==
    [ storage_capacity                 : {2},
      field_startup_losses             : {2},
      receiver_required_startup_energy : {2},
      receiver_pumping_losses          : {FracDen},
      minimum_receiver_power           : {2},
      allowable_receiver_startup_power : {1},
      field_track_losses               : {1},
      cycle_required_startup_energy    : {2},
      cycle_nominal_efficiency         : {FracDen},
      cycle_performance_slope          : {FracDen},
      cycle_pumping_losses             : {FracDen},
      allowable_cycle_startup_power    : {1},
      minimum_cycle_thermal_power      : {1},
      maximum_cycle_thermal_power      : {1},
      maximum_cycle_power              : {2} ]

\* plant states at the beginning of the horizon: field and cycle off;
\* field and cycle generating; field and cycle part-way through a startup
InitialConditions ==
    { [ initial_thermal_energy_storage     |-> 2,
        initial_receiver_startup_inventory |-> 0,
        is_field_generating_initial        |-> 0,
        is_field_starting_initial          |-> 0,
        initial_cycle_startup_inventory    |-> 0,
        initial_cycle_thermal_power        |-> 0,
        is_cycle_generating_initial        |-> 0,
        is_cycle_starting_initial          |-> 0 ],
      [ initial_thermal_energy_storage     |-> 1,
        initial_receiver_startup_inventory |-> 0,
        is_field_generating_initial        |-> 1,
        is_field_starting_initial          |-> 0,
        initial_cycle_startup_inventory    |-> 0,
        initial_cycle_thermal_power        |-> 1,
        is_cycle_generating_initial        |-> 1,
        is_cycle_starting_initial          |-> 0 ],
      [ initial_thermal_energy_storage     |-> 1,
        initial_receiver_startup_inventory |-> 1,
        is_field_generating_initial        |-> 0,
        is_field_starting_initial          |-> 1,
        initial_cycle_startup_inventory    |-> 1,
        initial_cycle_thermal_power        |-> 0,
        is_cycle_generating_initial        |-> 0,
        is_cycle_starting_initial          |-> 1 ] }

\* the initial-condition parameters at their defaults
DefaultInitialConditions ==
    [ initial_thermal_energy_storage     |-> 0,
      initial_receiver_startup_inventory |-> 0,
      is_field_generating_initial        |-> 0,
      is_field_starting_initial          |-> 0,
      initial_cycle_startup_inventory    |-> 0,
      initial_cycle_thermal_power        |-> 0,
      is_cycle_generating_initial        |-> 0,
      is_cycle_starting_initial          |-> 0 ]

\* the period lengths and the forecast values of the available resource
Durations == {1, 2}
Forecast == {0, 3}

\* the state after construction: broadcast and initial-condition parameters
\* set, the period length chosen, the other per-period parameters at their
\* defaults (the ambient correction, which has none, at 1), no block
\* assigned
Init ==
    /\ par \in ParameterSets
    /\ time_duration \in Durations
    /\ available_thermal_generation = 0
    /\ cycle_ambient_efficiency_correction = FracDen
    /\ condenser_losses = 0
    /\ model \in InitialConditions
    /\ t = 0
    /\ csp = NoBlock
    /\ system_model = NoSystemModel
    /\ raised = "None"

\* blocks[tt] gets its per-period parameters and is solved
Assign(tt, dt, atg, corr, cond) ==
    /\ time_duration' = dt
    /\ available_thermal_generation' = atg
    /\ cycle_ambient_efficiency_correction' = corr
    /\ condenser_losses' = cond
    /\ SolveBlock(tt, BlockParams(dt, atg, corr, cond))
    /\ t' = tt
    /\ UNCHANGED << par, model, system_model, raised >>

\* the next period block of the horizon is solved
SolvePeriod ==
    /\ t < Horizon
    /\ \E atg \in Forecast :
          Assign(t + 1, time_duration, atg, FracDen, FracDen)

Next == SolvePeriod

Spec == Init /\ [][Next]_vars

(***************************************************************************)
(* The three-period scenario: no resource in the first period, 5 MWt in    *)
(* the others, minimum receiver power 1 MWt.                               *)
(***************************************************************************)
ScenarioForecast(k) == IF k = first THEN 0 ELSE MaxVal

ScenarioParameterSets ==
    { [q EXCEPT !.minimum_receiver_power = 1] : q \in ParameterSets }

InitScenario ==
    /\ par \in ScenarioParameterSets
    /\ time_duration \in Durations
    /\ available_thermal_generation = 0
    /\ cycle_ambient_efficiency_correction = FracDen
    /\ condenser_losses = 0
    /\ model \in InitialConditions
    /\ t = 0
    /\ csp = NoBlock
    /\ system_model = NoSystemModel
    /\ raised = "None"

SolveScenarioPeriod ==
    /\ t < Horizon
    /\ Assign(t + 1, time_duration, ScenarioForecast(t + 1), FracDen, FracDen)

NextScenario == SolveScenarioPeriod

SpecScenario == InitScenario /\ [][NextScenario]_vars

(***************************************************************************)
(* Properties of the schedule.                                             *)
(***************************************************************************)
Solved == t >= first

\* <<previous-state variable, initial-condition parameter, ending variable>>
LinkedQuantities ==
    { <<"previous_thermal_energy_storage", "initial_thermal_energy_storage",
        "thermal_energy_storage">>,
      <<"previous_receiver_startup_inventory", "initial_receiver_startup_inventory",
        "receiver_startup_inventory">>,
      <<"was_field_generating", "is_field_generating_initial", "is_field_generating">>,
      <<"was_field_starting", "is_field_starting_initial", "is_field_starting">>,
      <<"previous_cycle_startup_inventory", "initial_cycle_startup_inventory",
        "cycle_startup_inventory">>,
      <<"previous_cycle_thermal_power", "initial_cycle_thermal_power",
        "cycle_thermal_power">>,
      <<"was_cycle_generating", "is_cycle_generating_initial", "is_cycle_generating">>,
      <<"was_cycle_starting", "is_cycle_starting_initial", "is_cycle_starting">> }

OneLinkPerPeriod(lnk) ==
    \A q \in LinkedQuantities : \A tt \in index_set :
        LET cs == {c \in lnk : c.lhs = Ref(tt, q[1])}
        IN  /\ Cardinality(cs) = 1
            /\ \A c \in cs :
                   /\ c.t = tt
                   /\ c.rhs = IF tt = first THEN Ref(Model, q[2])
                                            ELSE Ref(tt - 1, q[3])

\* C1: each of the eight linked quantities has exactly one linking equality
\* per period; the previous-state variable of the first period equals the
\* initial-condition parameter, and that of every later period equals the
\* ending variable of the period before it.
C1_Linking ==
    /\ []OneLinkPerPeriod(_create_linking_constraints)
    /\ [][ \A q \in LinkedQuantities :
               /\ t' = first => csp'[q[1]] = model[q[2]]
               /\ t' > first => csp'[q[1]] = csp[q[3]] ]_vars

\* a later period whose starting storage differs from the initial storage
C1_Witness ==
    /\ t > first
    /\ csp.previous_thermal_energy_storage # model.initial_thermal_energy_storage
    /\ csp.was_field_generating # model.is_field_generating_initial

\* C2: the storage level lies between 0 and the storage capacity, the cycle
\* thermal power between 0 and the maximum cycle thermal power, and so do
\* their previous-state counterparts.
C2_Bounds ==
    Solved =>
        /\ 0 <= csp.thermal_energy_storage
        /\ csp.thermal_energy_storage <= par.storage_capacity
        /\ 0 <= csp.previous_thermal_energy_storage
        /\ csp.previous_thermal_energy_storage <= par.storage_capacity
        /\ 0 <= csp.cycle_thermal_power
        /\ csp.cycle_thermal_power <= par.maximum_cycle_thermal_power
        /\ 0 <= csp.previous_cycle_thermal_power
        /\ csp.previous_cycle_thermal_power <= par.maximum_cycle_thermal_power

\* the tank is filled to capacity by a period in which the receiver delivers
\* more than the cycle draws, the cycle running at its maximum
C2_Witness ==
    /\ Solved
    /\ csp.thermal_energy_storage = par.storage_capacity
    /\ csp.previous_thermal_energy_storage < par.storage_capacity
    /\ csp.cycle_thermal_power = par.maximum_cycle_thermal_power
    /\ csp.receiver_thermal_power > csp.cycle_thermal_power

\* C3: the change of the storage level over a period equals the period's
\* duration times (receiver thermal power - (allowable cycle startup power
\* * is_cycle_starting + cycle thermal power)).
C3_StorageBalance ==
    Solved =>
        csp.thermal_energy_storage - csp.previous_thermal_energy_storage =
            time_duration * (csp.receiver_thermal_power
                             - (par.allowable_cycle_startup_power * csp.is_cycle_starting
                                + csp.cycle_thermal_power))

\* a two-hour period with receiver output, a cycle startup draw and a cycle
\* draw, in which the level changes
C3_Witness ==
    /\ Solved
    /\ time_duration = 2
    /\ csp.receiver_thermal_power > 0
    /\ csp.is_cycle_starting = 1
    /\ csp.cycle_thermal_power > 0
    /\ csp.thermal_energy_storage # csp.previous_thermal_energy_storage

\* C4: in a period whose available thermal generation is below the minimum
\* receiver power the field is neither starting nor generating, whatever the
\* previous state.
C4_NoResource ==
    (Solved /\ available_thermal_generation < par.minimum_receiver_power) =>
        /\ csp.is_field_starting = 0
        /\ csp.is_field_generating = 0

\* a later period without resource, entered with the field generating
C4_Witness ==
    /\ t > first
    /\ available_thermal_generation = 0
    /\ par.minimum_receiver_power > 0
    /\ csp.was_field_generating = 1
    /\ csp.is_field_generating = 0

\* C5: in the three-period scenario (no resource in the first period,
\* minimum receiver power 1) the first period has no field activity:
\* both field flags, the receiver thermal power, the startup consumption
\* and the startup inventory are zero.
C5_FirstPeriodIdle ==
    (t = first /\ available_thermal_generation = 0
               /\ par.minimum_receiver_power > 0) =>
        /\ csp.is_field_starting = 0
        /\ csp.is_field_generating = 0
        /\ csp.receiver_thermal_power = 0
        /\ csp.receiver_startup_consumption = 0
        /\ csp.receiver_startup_inventory = 0

\* the third period of the scenario: the field started in the second
\* period, completes the required inventory at the allowable rate and
\* generates
C5_Witness ==
    /\ t = first + 2
    /\ available_thermal_generation = MaxVal
    /\ csp.was_field_starting = 1
    /\ csp.previous_receiver_startup_inventory > 0
    /\ csp.is_field_starting = 1
    /\ csp.receiver_startup_consumption = par.allowable_receiver_startup_power
    /\ csp.receiver_startup_inventory = par.receiver_required_startup_energy
    /\ csp.is_field_generating = 1
    /\ csp.receiver_thermal_power >= par.minimum_receiver_power

\* C6: a generating field was generating in the previous period or holds
\* the required startup inventory.
C6_GeneratingNeedsStartup ==
    (Solved /\ par.receiver_required_startup_energy > 0
            /\ csp.is_field_generating = 1) =>
        \/ csp.was_field_generating = 1
        \/ csp.receiver_startup_inventory >= par.receiver_required_startup_energy

\* the field begins to generate in the period that completes its startup
C6_Witness ==
    /\ Solved
    /\ csp.is_field_generating = 1
    /\ csp.was_field_generating = 0
    /\ csp.previous_receiver_startup_inventory < par.receiver_required_startup_energy
    /\ csp.receiver_startup_inventory = par.receiver_required_startup_energy

\* C7: is_starting + was_generating <= 1 for the field and for the cycle; a
\* device that generated in the period before (or initially, for the first
\* period) is not starting.
C7_NoStartWhileGenerating ==
    [][ /\ csp'.is_field_starting + csp'.was_field_generating <= 1
        /\ csp'.is_cycle_starting + csp'.was_cycle_generating <= 1
        /\ (t' = first /\ model.is_field_generating_initial = 1)
               => csp'.is_field_starting = 0
        /\ (t' = first /\ model.is_cycle_generating_initial = 1)
               => csp'.is_cycle_starting = 0
        /\ (t' > first /\ csp.is_field_generating = 1)
               => csp'.is_field_starting = 0
        /\ (t' > first /\ csp.is_cycle_generating = 1)
               => csp'.is_cycle_starting = 0 ]_vars

\* a later period entered with the cycle generating, in which the cycle has
\* stopped and the tank holds energy a startup could have drawn
C7_Witness ==
    /\ t > first
    /\ csp.was_cycle_generating = 1
    /\ csp.is_cycle_generating = 0
    /\ csp.is_cycle_starting = 0
    /\ csp.previous_thermal_energy_storage >=
           time_duration * par.allowable_cycle_startup_power

\* C8: a field that is not generating delivers no receiver thermal power; a
\* generating field delivers between the minimum receiver power and the
\* available thermal generation.
C8_ReceiverPowerRange ==
    Solved =>
        /\ csp.is_field_generating = 0 => csp.receiver_thermal_power = 0
        /\ csp.is_field_generating = 1 =>
               /\ par.minimum_receiver_power <= csp.receiver_thermal_power
               /\ csp.receiver_thermal_power <= available_thermal_generation

\* a generating field delivering all the available power, above the minimum
C8_Witness ==
    /\ Solved
    /\ csp.is_field_generating = 1
    /\ csp.receiver_thermal_power = available_thermal_generation
    /\ csp.receiver_thermal_power > par.minimum_receiver_power

\* C9: when the starting flag of the field or of the cycle is 1 in a period
\* and was 0 in the period before (or initially, for the first period), the
\* start is incurred.
C9_IncurStart ==
    [][ /\ (t' = first /\ model.is_field_starting_initial = 0
                       /\ csp'.is_field_starting = 1)
               => csp'.incur_field_start = 1
        /\ (t' = first /\ model.is_cycle_starting_initial = 0
                       /\ csp'.is_cycle_starting = 1)
               => csp'.incur_cycle_start = 1
        /\ (t' > first /\ csp.is_field_starting = 0
                       /\ csp'.is_field_starting = 1)
               => csp'.incur_field_start = 1
        /\ (t' > first /\ csp.is_cycle_starting = 0
                       /\ csp'.is_cycle_starting = 1)
               => csp'.incur_cycle_start = 1 ]_vars

\* a later period in which the field begins a startup
C9_Witness ==
    /\ t > first
    /\ csp.was_field_starting = 0
    /\ csp.is_field_starting = 1
    /\ csp.incur_field_start = 1

\* C10: the receiver startup inventory is at most the previous inventory
\* plus duration * startup consumption; the consumption is at most the
\* allowable startup power * is_field_starting; the inventory is at most
\* the required startup energy * is_field_starting, so it never exceeds the
\* required energy and is 0 when the field is not starting.
C10_StartupInventory ==
    Solved =>
        /\ csp.receiver_startup_inventory <=
               csp.previous_receiver_startup_inventory
               + time_duration * csp.receiver_startup_consumption
        /\ csp.receiver_startup_consumption <=
               par.allowable_receiver_startup_power * csp.is_field_starting
        /\ csp.receiver_startup_inventory <=
               par.receiver_required_startup_energy * csp.is_field_starting
        /\ csp.receiver_startup_inventory <= par.receiver_required_startup_energy
        /\ csp.is_field_starting = 0 => csp.receiver_startup_inventory = 0

\* a startup in progress: inventory accumulated at the allowable rate, not
\* yet complete
C10_Witness ==
    /\ Solved
    /\ csp.is_field_starting = 1
    /\ csp.receiver_startup_consumption = par.allowable_receiver_startup_power
    /\ csp.receiver_startup_inventory =
           csp.previous_receiver_startup_inventory
           + time_duration * csp.receiver_startup_consumption
    /\ csp.receiver_startup_inventory > 0
    /\ csp.receiver_startup_inventory < par.receiver_required_startup_energy

\* C11: a generating cycle was generating in the previous period or holds
\* the required cycle startup inventory; the cycle startup inventory is at
\* most the previous inventory plus duration * allowable cycle startup power
\* * is_cycle_starting and at most the required energy * is_cycle_starting;
\* the cycle draws thermal power only when it is generating.
C11_CycleGating ==
    (Solved /\ par.cycle_required_startup_energy > 0) =>
        /\ csp.is_cycle_generating = 1 =>
               \/ csp.was_cycle_generating = 1
               \/ csp.cycle_startup_inventory = par.cycle_required_startup_energy
        /\ csp.cycle_startup_inventory <=
               csp.previous_cycle_startup_inventory
               + time_duration * par.allowable_cycle_startup_power
                 * csp.is_cycle_starting
        /\ csp.cycle_startup_inventory <=
               par.cycle_required_startup_energy * csp.is_cycle_starting
        /\ csp.cycle_thermal_power > 0 => csp.is_cycle_generating = 1

\* the cycle begins to generate in the period that completes its startup
C11_Witness ==
    /\ Solved
    /\ csp.is_cycle_generating = 1
    /\ csp.was_cycle_generating = 0
    /\ csp.is_cycle_starting = 1
    /\ csp.previous_cycle_startup_inventory < par.cycle_required_startup_energy
    /\ csp.cycle_startup_inventory = par.cycle_required_startup_energy
    /\ csp.cycle_thermal_power > 0

(***************************************************************************)
(* Schedules under different ambient conditions: the ambient efficiency    *)
(* correction and the condenser losses are set for the horizon, the        *)
(* nominal efficiency is below 1 and the two pumping-loss coefficients     *)
(* differ.                                                                 *)
(***************************************************************************)
PerformanceParameterSets ==
    { [q EXCEPT !.cycle_nominal_efficiency = 1,
                !.cycle_pumping_losses = 2 * FracDen] : q \in ParameterSets }

\* <<cycle_ambient_efficiency_correction, condenser_losses>> of the periods
AmbientCorrections == { <<1, 0>>, <<FracDen, FracDen>> }

InitPerformance ==
    /\ par \in PerformanceParameterSets
    /\ time_duration \in Durations
    /\ available_thermal_generation = 0
    /\ \E amb \in AmbientCorrections :
           /\ cycle_ambient_efficiency_correction = amb[1]
           /\ condenser_losses = amb[2]
    /\ model \in InitialConditions
    /\ t = 0
    /\ csp = NoBlock
    /\ system_model = NoSystemModel
    /\ raised = "None"

\* the next period block is solved, the resource at the minimum receiver power
SolvePerformancePeriod ==
    /\ t < Horizon
    /\ Assign(t + 1, time_duration, par.minimum_receiver_power,
              cycle_ambient_efficiency_correction, condenser_losses)

NextPerformance == SolvePerformancePeriod

SpecPerformance == InitPerformance /\ [][NextPerformance]_vars

\* C12: the cycle generation equals (ambient correction / nominal
\* efficiency) * (slope * cycle thermal power + (maximum cycle power - slope
\* * maximum cycle thermal power) * is_cycle_generating); it is 0 when the
\* cycle is not generating, and (correction / nominal efficiency) * maximum
\* cycle power when the cycle generates at the maximum thermal power.
\* (correction, nominal efficiency and slope are numerators over FracDen;
\* each equation is stated times nominal * FracDen.)
C12_PerformanceCurve ==
    Solved =>
        /\ csp.cycle_generation * par.cycle_nominal_efficiency * FracDen =
               cycle_ambient_efficiency_correction
               * (par.cycle_performance_slope * csp.cycle_thermal_power
                  + (par.maximum_cycle_power * FracDen
                     - par.cycle_performance_slope * par.maximum_cycle_thermal_power)
                    * csp.is_cycle_generating)
        /\ csp.is_cycle_generating = 0 => csp.cycle_generation = 0
        /\ (csp.is_cycle_generating = 1
            /\ csp.cycle_thermal_power = par.maximum_cycle_thermal_power) =>
               csp.cycle_generation * par.cycle_nominal_efficiency =
                   cycle_ambient_efficiency_correction * par.maximum_cycle_power

\* the cycle generates at its maximum thermal power under an ambient
\* correction that differs from the nominal efficiency
C12_Witness ==
    /\ Solved
    /\ csp.is_cycle_generating = 1
    /\ csp.cycle_thermal_power = par.maximum_cycle_thermal_power
    /\ cycle_ambient_efficiency_correction # par.cycle_nominal_efficiency
    /\ csp.cycle_generation > par.maximum_cycle_power

\* C14: the system load equals cycle generation * condenser losses
\* + receiver pumping losses * (receiver thermal power + startup consumption)
\* + cycle pumping losses * (cycle thermal power + allowable cycle startup
\* power * is_cycle_starting) + field track losses * is_field_generating
\* + (field startup losses / duration) * is_field_starting; it is 0 when
\* neither the field nor the cycle is generating or starting.
\* (the three loss coefficients are numerators over FracDen; the equation is
\* stated times FracDen * FracDen * duration.)
C14_SystemLoad ==
    Solved =>
        /\ csp.system_load * FracDen * FracDen * time_duration =
               time_duration
               * (csp.cycle_generation * condenser_losses * FracDen
                  + par.receiver_pumping_losses * FracDen
                    * (csp.receiver_thermal_power + csp.receiver_startup_consumption)
                  + par.cycle_pumping_losses * FracDen
                    * (csp.cycle_thermal_power
                       + par.allowable_cycle_startup_power * csp.is_cycle_starting)
                  + par.field_track_losses * FracDen * FracDen
                    * csp.is_field_generating)
               + par.field_startup_losses * FracDen * FracDen * csp.is_field_starting
        /\ (csp.is_field_generating = 0 /\ csp.is_field_starting = 0
            /\ csp.is_cycle_generating = 0 /\ csp.is_cycle_starting = 0) =>
               csp.system_load = 0

\* a two-hour period in which every loss family contributes
C14_Witness ==
    /\ Solved
    /\ time_duration = 2
    /\ condenser_losses > 0
    /\ csp.cycle_generation > 0
    /\ csp.receiver_thermal_power > 0
    /\ csp.is_cycle_starting = 1
    /\ csp.is_field_generating = 1
    /\ csp.is_field_starting = 1
    /\ csp.system_load > 0

\* the cycle thermal powers of two consecutive periods admit a ramp value
\* within the ramp variable's bounds, under parameters p
RampAdmitsAll(p) ==
    \A q0 \in _create_cycle_variables(p).previous_cycle_thermal_power :
        \A q1 \in _create_cycle_variables(p).cycle_thermal_power :
            \E r \in _create_cycle_variables(p).cycle_thermal_ramp :
                cycle_thermal_ramp_constraint(p,
                    [ cycle_thermal_ramp           |-> r,
                      cycle_thermal_power          |-> q1,
                      previous_cycle_thermal_power |-> q0 ])

\* C13: the ramp is at least max(0, cycle thermal power - previous cycle
\* thermal power), and for every maximum cycle thermal power and every pair
\* of consecutive thermal powers within the variables' bounds some ramp value
\* within [0, maximum] satisfies the ramp constraint: the ramp removes no
\* thermal-power trajectory.
C13_RampMeasures ==
    Solved =>
        /\ csp.cycle_thermal_ramp >= 0
        /\ csp.cycle_thermal_ramp >=
               csp.cycle_thermal_power - csp.previous_cycle_thermal_power
        /\ \A m \in Reals0 :
               RampAdmitsAll([par EXCEPT !.maximum_cycle_thermal_power = m])

\* a later period in which the cycle's thermal power rises from 0 to its
\* maximum, the ramp measuring exactly the rise
C13_Witness ==
    /\ t > first
    /\ csp.previous_cycle_thermal_power = 0
    /\ csp.cycle_thermal_power = par.maximum_cycle_thermal_power
    /\ csp.cycle_thermal_power > 0
    /\ csp.cycle_thermal_ramp =
           csp.cycle_thermal_power - csp.previous_cycle_thermal_power

(***************************************************************************)
(* Arithmetic of the parameter updates.  The fits are computed before the  *)
(* parameters are rounded, so their numbers are exact fractions <<n, d>>   *)
(* with d > 0, in lowest terms.                                            *)
(***************************************************************************)
RECURSIVE GCD(_, _)
GCD(a, b) == IF b = 0 THEN a ELSE GCD(b, a % b)

Abs(x) == IF x < 0 THEN -x ELSE x
Min(S) == CHOOSE x \in S : \A y \in S : x <= y
max(a, b) == IF a >= b THEN a ELSE b
min(a, b) == IF a <= b THEN a ELSE b

Rat(n, d) ==
    LET s == IF d < 0 THEN -1 ELSE 1
        g == GCD(Abs(n), Abs(d))
    IN  << (s * n) \div g, (s * d) \div g >>

\* sums and comparisons over the least common denominator, products with
\* the common factors taken out first, so that no intermediate number is
\* larger than needed
RAdd(a, b) ==
    LET g == GCD(a[2], b[2])
    IN  Rat(a[1] * (b[2] \div g) + b[1] * (a[2] \div g), a[2] * (b[2] \div g))
RNeg(a) == << -a[1], a[2] >>
RSub(a, b) == RAdd(a, RNeg(b))
RMul(a, b) ==
    LET g == GCD(Abs(a[1]), b[2])
        h == GCD(Abs(b[1]), a[2])
    IN  Rat((a[1] \div g) * (b[1] \div h), (a[2] \div h) * (b[2] \div g))
\* defined for b /= 0; a caller raises ZeroDivisionError before dividing by 0
RDiv(a, b) == RMul(a, Rat(b[2], b[1]))
RLess(a, b) ==
    LET g == GCD(a[2], b[2])
    IN  a[1] * (b[2] \div g) < b[1] * (a[2] \div g)
Zero == Rat(0, 1)

\* int(): the fraction truncated towards zero
int(a) == IF a[1] >= 0 THEN a[1] \div a[2] ELSE -((-a[1]) \div a[2])

(***************************************************************************)
(* Part-load performance of the cycle.                                     *)
(***************************************************************************)
\* the slope through the two end points taken as plain efficiencies
etap_of_efficiencies(q, eta) ==
    RDiv(RSub(eta[2], eta[1]), RSub(q[2], q[1]))

\* slope of the line through (q[0], q[0]*eta[0]) and (q[1], q[1]*eta[1])
etap(q, eta) ==
    RDiv(RSub(RMul(q[2], eta[2]), RMul(q[1], eta[1])), RSub(q[2], q[1]))

\* the two parameters fitted from a table of load fractions and
\* efficiencies; p holds the parameters set before the call
set_linearized_cycle_part_load_params(sm, p, norm_heat_pts, efficiency_pts) ==
    IF Len(norm_heat_pts) < 2 THEN [raised |-> "IndexError"]
    ELSE
    LET q_pb_design == sm.cycle_thermal_rating
        fpts == << sm.cycle_cutoff_frac, sm.cycle_max_frac >>
        step == RSub(norm_heat_pts[2], norm_heat_pts[1])
        \* index of the table interval used for end point j (from 0)
        pj(j) == max(0, min(int(RDiv(RSub(fpts[j], norm_heat_pts[1]), step)),
                            Len(norm_heat_pts) - 2))
        eta == [j \in 1..2 |->
                  RAdd(efficiency_pts[pj(j) + 1],
                       RMul(RDiv(RSub(efficiency_pts[pj(j) + 2],
                                      efficiency_pts[pj(j) + 1]), step),
                            RSub(fpts[j], norm_heat_pts[pj(j) + 1])))]
        q == [j \in 1..2 |-> RMul(fpts[j], q_pb_design)]
        b == RMul(q[2], RSub(eta[2], etap(q, eta)))
    IN  IF step = Zero \/ q[2] = q[1] THEN [raised |-> "ZeroDivisionError"]
        ELSE [ raised |-> "None",
               p |-> [j \in 1..2 |-> pj(j)],
               eta |-> eta,
               cycle_performance_slope |-> etap(q, eta),
               maximum_cycle_power |->
                   RAdd(b, RMul(p.maximum_cycle_thermal_power, etap(q, eta))) ]

\* 1 + the first index, counted from row i0, at which a column changes
\* between adjacent rows; 0 when there is none
FirstChange(data, i0, col) ==
    LET D == { k \in 1..(Len(data) - i0 - 1) :
                  data[i0 + k + 1][col] /= data[i0 + k][col] }
    IN  IF D = {} THEN 0 ELSE Min(D)

\* 1 + the first index, counted from row i0, at which a column decreases
\* between adjacent rows; 0 when there is none (the lookup then fails)
FirstDecrease(data, i0, col) ==
    LET D == { k \in 1..(Len(data) - i0 - 1) :
                  RLess(data[i0 + k + 1][col], data[i0 + k][col]) }
    IN  IF D = {} THEN 0 ELSE Min(D)

\* the three levels read at rows i0, i0 + n and i0 + 2n (from 0) exist
HasLevels(data, i0, n) == i0 + 2 * n < Len(data)

interpret_user_defined_cycle_data(ud_ind_od) ==
    LET data == ud_ind_od
        nT == FirstDecrease(data, 0, 1)
        nm == FirstDecrease(data, 3 * nT, 2)
        nTamb == FirstDecrease(data, 3 * nT + 3 * nm, 3)
    IN  IF nT = 0 \/ ~HasLevels(data, 0, nT) THEN [raised |-> "IndexError"]
        ELSE IF nm = 0 \/ ~HasLevels(data, 3 * nT, nm) THEN [raised |-> "IndexError"]
        ELSE IF nTamb = 0 \/ ~HasLevels(data, 3 * nT + 3 * nm, nm)
        THEN [raised |-> "IndexError"]
        ELSE [ raised |-> "None", nT |-> nT, nm |-> nm, nTamb |-> nTamb,
               Tpts |-> [k \in 1..nT |-> data[k][1]],
               mpts |-> [k \in 1..nm |-> data[3 * nT + k][2]],
               Tambpts |-> [k \in 1..nTamb |-> data[3 * nT + 3 * nm + k][3]] ]

\* the fallback with the maximum power taken at unit efficiency
set_part_load_cycle_parameters_unit_efficiency(sm, p) ==
    [ raised |-> "None",
      cycle_performance_slope |-> sm.cycle_nominal_efficiency,
      maximum_cycle_power |-> p.maximum_cycle_thermal_power ]

set_part_load_cycle_parameters(sm, p) ==
    LET tables == sm.cycle_efficiency_tables
    IN  IF "cycle_eff_load_table" \in DOMAIN tables THEN
            LET q_pb_design == sm.cycle_thermal_rating
                num_pts == Len(tables.cycle_eff_load_table)
            IN  IF q_pb_design = Zero /\ num_pts > 0
                THEN [raised |-> "ZeroDivisionError"]
                ELSE set_linearized_cycle_part_load_params(sm, p,
                       [i \in 1..num_pts |->
                           RDiv(tables.cycle_eff_load_table[i][1], q_pb_design)],
                       [i \in 1..num_pts |-> tables.cycle_eff_load_table[i][2]])
        ELSE IF "ud_ind_od" \in DOMAIN tables THEN
            LET D == interpret_user_defined_cycle_data(tables.ud_ind_od)
                k == 3 * D.nT + D.nm
            IN  IF D.raised /= "None" THEN [raised |-> D.raised]
                ELSE IF k + D.nm > Len(tables.ud_ind_od)
                THEN [raised |-> "IndexError"]
                ELSE IF \E i \in 1..D.nm : tables.ud_ind_od[k + i][5] = Zero
                THEN [raised |-> "ZeroDivisionError"]
                ELSE set_linearized_cycle_part_load_params(sm, p, D.mpts,
                       [i \in 1..D.nm |->
                           RMul(sm.cycle_nominal_efficiency,
                                RDiv(tables.ud_ind_od[k + i][4],
                                     tables.ud_ind_od[k + i][5]))])
        ELSE [ raised |-> "None",
               cycle_performance_slope |-> sm.cycle_nominal_efficiency,
               maximum_cycle_power |->
                   RMul(p.maximum_cycle_thermal_power, sm.cycle_nominal_efficiency) ]

(***************************************************************************)
(* The part-load fit applied to tables of load fractions and efficiencies. *)
(* The state after initialize_parameters has set the cycle limits: the     *)
(* maximum thermal power is max_frac times the rating, the two fitted      *)
(* parameters have no value yet.                                           *)
(***************************************************************************)
MaxPts == 3
LoadDen == 4

LoadFractions == { Rat(k, LoadDen) : k \in 1..LoadDen }
RangeFractions == { Rat(k, LoadDen) : k \in 0..(LoadDen + 1) }
Efficiencies == { Rat(4, 5), Rat(1, 1) }
Ratings == { Rat(1, 1), Rat(3, 2) }

\* tables of <<load fraction, efficiency>> with strictly increasing load
\* fractions, uniformly spaced or not
LoadTables ==
    UNION { { tb \in [1..n -> LoadFractions \X Efficiencies] :
                \A i \in 1..(n - 1) : RLess(tb[i][1], tb[i + 1][1]) } :
            n \in 2..MaxPts }

\* the table and the operating range of the two-point scenario
ScenarioTable == << << Rat(1, 5), Rat(9, 10) >>, << Rat(1, 1), Rat(1, 1) >> >>
ScenarioRange == << Rat(1, 5), Rat(1, 1) >>

\* a plant with the given rating, operating range and table (of load
\* fractions: the plant reports the loads themselves)
PartLoadSystem(Q, range, tb) ==
    [ cycle_thermal_rating    |-> Q,
      cycle_cutoff_frac       |-> range[1],
      cycle_max_frac          |-> range[2],
      cycle_efficiency_tables |->
          [ cycle_eff_load_table |->
                [i \in 1..Len(tb) |-> << RMul(tb[i][1], Q), tb[i][2] >>] ] ]

PartLoadSystems ==
    { PartLoadSystem(Q, range, tb) :
        Q \in Ratings,
        range \in { r \in RangeFractions \X RangeFractions : ~RLess(r[2], r[1]) },
        tb \in LoadTables }
    \cup { PartLoadSystem(Q, ScenarioRange, ScenarioTable) : Q \in Ratings }

InitPartLoad ==
    /\ system_model \in PartLoadSystems
    /\ par = [ maximum_cycle_thermal_power |->
                 RMul(system_model.cycle_max_frac, system_model.cycle_thermal_rating) ]
    /\ time_duration = 1
    /\ available_thermal_generation = 0
    /\ cycle_ambient_efficiency_correction = FracDen
    /\ condenser_losses = 0
    /\ model = DefaultInitialConditions
    /\ t = 0
    /\ csp = NoBlock
    /\ raised = "None"

\* one call of set_part_load_cycle_parameters
SetPartLoad ==
    /\ "cycle_performance_slope" \notin DOMAIN par
    /\ raised = "None"
    /\ LET r == set_part_load_cycle_parameters(system_model, par)
       IN  /\ raised' = r.raised
           /\ par' = IF r.raised = "None"
                     THEN [ maximum_cycle_thermal_power |-> par.maximum_cycle_thermal_power,
                            cycle_performance_slope     |-> r.cycle_performance_slope,
                            maximum_cycle_power         |-> r.maximum_cycle_power ]
                     ELSE par
    /\ UNCHANGED << time_duration, available_thermal_generation,
                    cycle_ambient_efficiency_correction, condenser_losses,
                    model, t, csp, system_model >>

NextPartLoad == SetPartLoad

SpecPartLoad == InitPartLoad /\ [][NextPartLoad]_vars

\* the fit has been made
Fitted == "cycle_performance_slope" \in DOMAIN par

\* the two end points of the operating range, as thermal powers
RangeEnd(j) ==
    RMul(IF j = 1 THEN system_model.cycle_cutoff_frac ELSE system_model.cycle_max_frac,
         system_model.cycle_thermal_rating)

\* the efficiency the fit interpolates at end point j
EndEfficiency(j) ==
    set_part_load_cycle_parameters(system_model, par).eta[j]

\* the fitted line at thermal power q
FittedLine(q) ==
    RAdd(RMul(par.cycle_performance_slope, q),
         RSub(par.maximum_cycle_power,
              RMul(par.cycle_performance_slope, par.maximum_cycle_thermal_power)))

IsScenario ==
    /\ system_model.cycle_cutoff_frac = ScenarioRange[1]
    /\ system_model.cycle_max_frac = ScenarioRange[2]
    /\ system_model.cycle_efficiency_tables.cycle_eff_load_table =
          PartLoadSystem(system_model.cycle_thermal_rating, ScenarioRange,
                         ScenarioTable).cycle_efficiency_tables.cycle_eff_load_table

\* C15: with the maximum thermal power at the upper end q1 of the operating
\* range, the fitted slope is (q1*eta1 - q0*eta0)/(q1 - q0) and the fitted
\* line takes the value q0*eta0 at the lower end q0 and q1*eta1 at q1, eta0
\* and eta1 being the efficiencies interpolated at the two ends; for the
\* two-point table (0.2, 0.9), (1.0, 1.0) and the range [0.2, 1.0] the
\* efficiencies of the line at the ends are exactly 0.9 and 1.0
C15_PartLoadEndpoints ==
    Fitted =>
        /\ par.maximum_cycle_thermal_power = RangeEnd(2)
        /\ RMul(par.cycle_performance_slope, RSub(RangeEnd(2), RangeEnd(1))) =
              RSub(RMul(RangeEnd(2), EndEfficiency(2)),
                   RMul(RangeEnd(1), EndEfficiency(1)))
        /\ \A j \in 1..2 : FittedLine(RangeEnd(j)) = RMul(RangeEnd(j), EndEfficiency(j))
        /\ IsScenario =>
              /\ FittedLine(RangeEnd(1)) = RMul(RangeEnd(1), Rat(9, 10))
              /\ FittedLine(RangeEnd(2)) = RangeEnd(2)

C15_Witness ==
    /\ Fitted
    /\ IsScenario
    /\ par.cycle_performance_slope = Rat(41, 40)

(***************************************************************************)
(* Per-period parameters over the whole horizon.  In the specifications    *)
(* of the parameter updates the four per-period variables hold the         *)
(* parameter of every block, as a function on index_set.                   *)
(***************************************************************************)
round_digits == 2

\* 10 to the power k
RECURSIVE Pow10(_)
Pow10(k) == IF k = 0 THEN 1 ELSE 10 * Pow10(k - 1)

\* the value kept with all its digits
unrounded(x, ndigits) == x

\* round(): the nearest multiple of 10^-ndigits, a tie going to the even one
round(x, ndigits) ==
    LET n == x[1] * Pow10(ndigits)
        lo == n \div x[2]
        twice == 2 * (n - lo * x[2])
    IN  IF twice < x[2] THEN Rat(lo, Pow10(ndigits))
        ELSE IF twice > x[2] THEN Rat(lo + 1, Pow10(ndigits))
        ELSE IF lo % 2 = 0 THEN Rat(lo, Pow10(ndigits))
        ELSE Rat(lo + 1, Pow10(ndigits))

\* a parameter that has no value
NoValue == << 0, 0 >>

\* the exception of the else branch of a per-period setter: the message is
\* built from the __name__ of what the getter returns; the getter reads the
\* value of every block, which raises for a parameter without a value, and
\* returns a list, which has no __name__
mismatch_error(old) ==
    IF \E k \in index_set : old[k] = NoValue THEN "ValueError" ELSE "AttributeError"

\* the blocks written before the length is compared
set_per_period_zipped(old, new) ==
    IF Len(new) /= Horizon
    THEN [ raised |-> mismatch_error(old),
           value  |-> [k \in index_set |->
                         IF k <= Len(new) THEN round(new[k], round_digits) ELSE old[k]] ]
    ELSE [ raised |-> "None",
           value  |-> [k \in index_set |-> round(new[k], round_digits)] ]

\* the setter of a per-period parameter whose blocks hold old and which is
\* assigned the list new: the length is compared first, then the blocks are
\* written in order, each value rounded, and a block parameter (within
\* NonNegativeReals) rejects a negative value
set_per_period(old, new) ==
    IF Len(new) /= Horizon
    THEN [raised |-> mismatch_error(old), value |-> old]
    ELSE LET rejected == { k \in index_set : RLess(round(new[k], round_digits), Zero) }
         IN  IF rejected = {}
             THEN [ raised |-> "None",
                    value  |-> [k \in index_set |-> round(new[k], round_digits)] ]
             ELSE [ raised |-> "ValueError",
                    value  |-> [k \in index_set |->
                                  IF k < Min(rejected)
                                  THEN round(new[k], round_digits) ELSE old[k]] ]

(***************************************************************************)
(* Ambient-temperature corrections of the cycle.  old holds the two        *)
(* per-period parameters before the call; the result holds them after it.  *)
(***************************************************************************)
\* the two lists assigned one after the other
set_both(old, corr, cond) ==
    LET a == set_per_period(old.cycle_ambient_efficiency_correction, corr)
        b == set_per_period(old.condenser_losses, cond)
    IN  IF a.raised /= "None"
        THEN [ raised |-> a.raised,
               cycle_ambient_efficiency_correction |-> a.value,
               condenser_losses |-> old.condenser_losses ]
        ELSE [ raised |-> b.raised,
               cycle_ambient_efficiency_correction |-> a.value,
               condenser_losses |-> b.value ]

Unset(old, error) ==
    [ raised |-> error,
      cycle_ambient_efficiency_correction |-> old.cycle_ambient_efficiency_correction,
      condenser_losses |-> old.condenser_losses ]

\* index (from 0) of the table interval used for the temperature of period j
i_of(Tdb, Tpts, j) ==
    max(0, min(int(RDiv(RSub(Tdb[j], Tpts[1]), RSub(Tpts[2], Tpts[1]))),
               Len(Tpts) - 2))

set_cycle_ambient_corrections(old, Tdb, Tpts, etapts, wcondfpts) ==
    IF Len(Tpts) < 2 THEN Unset(old, "IndexError")
    ELSE
    LET n == Len(Tdb)
        npts == Len(Tpts)
        Tstep == RSub(Tpts[2], Tpts[1])
        i(j) == i_of(Tdb, Tpts, j)
        r(j) == RDiv(RSub(Tdb[j], Tpts[i(j) + 1]), Tstep)
    IN  IF n > 0 /\ Tstep = Zero THEN Unset(old, "ZeroDivisionError")
        ELSE IF \E j \in 1..n : i(j) + 2 > Len(etapts) \/ i(j) + 2 > Len(wcondfpts)
        THEN Unset(old, "IndexError")
        ELSE set_both(old,
               [j \in 1..n |->
                   RAdd(etapts[i(j) + 1],
                        RMul(RSub(etapts[i(j) + 2], etapts[i(j) + 1]), r(j)))],
               [j \in 1..n |->
                   RAdd(wcondfpts[i(j) + 1],
                        RMul(RSub(wcondfpts[i(j) + 2], wcondfpts[i(j) + 1]), r(j)))])

set_ambient_temperature_cycle_parameters(sm, old, dry_bulb_temperature) ==
    LET tables == sm.cycle_efficiency_tables
    IN  IF "cycle_eff_Tdb_table" \in DOMAIN tables THEN
            LET nT == Len(tables.cycle_eff_Tdb_table)
            IN  IF nT > 0 /\ "cycle_wcond_Tdb_table" \notin DOMAIN tables
                THEN Unset(old, "KeyError")
                ELSE IF nT > 0 /\ Len(tables.cycle_wcond_Tdb_table) < nT
                THEN Unset(old, "IndexError")
                ELSE set_cycle_ambient_corrections(old, dry_bulb_temperature,
                       [k \in 1..nT |-> tables.cycle_eff_Tdb_table[k][1]],
                       [k \in 1..nT |-> RMul(tables.cycle_eff_Tdb_table[k][2],
                                             sm.cycle_nominal_efficiency)],
                       [k \in 1..nT |-> tables.cycle_wcond_Tdb_table[k][2]])
        ELSE IF "ud_ind_od" \in DOMAIN tables THEN
            LET D == interpret_user_defined_cycle_data(tables.ud_ind_od)
                k == 3 * D.nT + 3 * D.nm + D.nTamb
                npts == D.nTamb
            IN  IF D.raised /= "None" THEN Unset(old, D.raised)
                ELSE IF k + npts > Len(tables.ud_ind_od)
                THEN Unset(old, "IndexError")
                ELSE IF \E j \in 1..npts : tables.ud_ind_od[k + j][5] = Zero
                THEN Unset(old, "ZeroDivisionError")
                ELSE set_cycle_ambient_corrections(old, dry_bulb_temperature,
                       D.Tambpts,
                       [j \in 1..npts |->
                           RMul(sm.cycle_nominal_efficiency,
                                RDiv(tables.ud_ind_od[k + j][4],
                                     tables.ud_ind_od[k + j][5]))],
                       [j \in 1..npts |->
                           RMul(RDiv(sm.ud_f_W_dot_cool_des, Rat(100, 1)),
                                tables.ud_ind_od[k + j][6])])
        ELSE LET n == Len(dry_bulb_temperature)
             IN  set_both(old,
                          [j \in 1..n |-> sm.cycle_nominal_efficiency],
                          [j \in 1..n |-> Zero])

(***************************************************************************)
(* The ambient corrections applied to tables of dry-bulb temperatures.     *)
(* The plant holds the temperature of every period; the correction of no   *)
(* block has a value yet, its condenser losses are at the default.         *)
(***************************************************************************)
MaxTemp == 3

Breakpoints == { Rat(k, 1) : k \in 0..MaxTemp }
Temperatures == (-1)..(MaxTemp + 1)
TableCorrections == { Rat(9, 10), Rat(1, 1) }
NominalEfficiency == Rat(2, 5)

\* tabulated fraction of the design output taken by cooling at breakpoint T
CondenserFraction(T) == Rat(10 * T[2] * T[2] + T[1] * T[1], 100 * T[2] * T[2])

\* tables of <<temperature, efficiency correction>> with strictly
\* increasing temperatures, uniformly spaced or not
AmbientTables ==
    UNION { { tb \in [1..n -> Breakpoints \X TableCorrections] :
                \A k \in 1..(n - 1) : RLess(tb[k][1], tb[k + 1][1]) } :
            n \in 2..MaxPts }

\* temperatures of the periods: constant, rising or falling by one degree
TemperatureSeries ==
    { [k \in index_set |-> Rat(T0 + d * (k - 1), 1)] :
        T0 \in Temperatures, d \in {-1, 0, 1} }

AmbientSystems ==
    { [ cycle_nominal_efficiency |-> NominalEfficiency,
        cycle_efficiency_tables  |->
            [ cycle_eff_Tdb_table   |-> tb,
              cycle_wcond_Tdb_table |->
                  [k \in 1..Len(tb) |-> << tb[k][1], CondenserFraction(tb[k][1]) >>] ],
        Temperature |-> Tdb ] :
        tb \in AmbientTables, Tdb \in TemperatureSeries }

InitAmbient ==
    /\ system_model \in AmbientSystems
    /\ par \in ParameterSets
    /\ time_duration = [k \in index_set |-> Rat(1, 1)]
    /\ available_thermal_generation = [k \in index_set |-> Zero]
    /\ cycle_ambient_efficiency_correction = [k \in index_set |-> NoValue]
    /\ condenser_losses = [k \in index_set |-> Zero]
    /\ model = DefaultInitialConditions
    /\ t = 0
    /\ csp = NoBlock
    /\ raised = "None"

\* one call of set_ambient_temperature_cycle_parameters with the
\* temperatures of the periods
SetAmbient ==
    /\ raised = "None"
    /\ cycle_ambient_efficiency_correction[first] = NoValue
    /\ LET r == set_ambient_temperature_cycle_parameters(system_model,
                  [ cycle_ambient_efficiency_correction |->
                        cycle_ambient_efficiency_correction,
                    condenser_losses |-> condenser_losses ],
                  system_model.Temperature)
       IN  /\ raised' = r.raised
           /\ cycle_ambient_efficiency_correction' = r.cycle_ambient_efficiency_correction
           /\ condenser_losses' = r.condenser_losses
    /\ UNCHANGED << par, time_duration, available_thermal_generation,
                    model, t, csp, system_model >>

NextAmbient == SetAmbient

SpecAmbient == InitAmbient /\ [][NextAmbient]_vars

\* the call has been made
AmbientSet == cycle_ambient_efficiency_correction[first] /= NoValue \/ raised /= "None"

\* the tabulated points of the plant's tables
Tpts == [k \in 1..Len(system_model.cycle_efficiency_tables.cycle_eff_Tdb_table) |->
           system_model.cycle_efficiency_tables.cycle_eff_Tdb_table[k][1]]
etapts == [k \in 1..Len(system_model.cycle_efficiency_tables.cycle_eff_Tdb_table) |->
             RMul(system_model.cycle_efficiency_tables.cycle_eff_Tdb_table[k][2],
                  system_model.cycle_nominal_efficiency)]
wcondfpts == [k \in 1..Len(system_model.cycle_efficiency_tables.cycle_wcond_Tdb_table) |->
                system_model.cycle_efficiency_tables.cycle_wcond_Tdb_table[k][2]]

\* the line through the tabulated points k and k + 1 of ypts, at temperature T
OnSegment(ypts, k, T) ==
    RAdd(ypts[k], RMul(RSub(ypts[k + 1], ypts[k]),
                       RDiv(RSub(T, Tpts[k]), RSub(Tpts[k + 1], Tpts[k]))))

\* the pair of values held by period j is the pair <<eta, wcond>>, rounded
Holds(j, eta, wcond) ==
    /\ cycle_ambient_efficiency_correction[j] = round(eta, round_digits)
    /\ condenser_losses[j] = round(wcond, round_digits)

UniformlySpaced ==
    \A k \in 1..(Len(Tpts) - 1) : RSub(Tpts[k + 1], Tpts[k]) = RSub(Tpts[2], Tpts[1])

\* C16: for a table of at least two breakpoints and the temperature T of
\* every period, the interval index is within 0..npts-2 and no lookup
\* fails; at a breakpoint the two values held are the tabulated ones; below
\* the first (above the last) breakpoint they lie on the first (last) table
\* segment extended; every period holds one pair of values
C16_AmbientInterpolation ==
    AmbientSet =>
        /\ raised \notin {"IndexError", "KeyError", "ZeroDivisionError"}
        /\ \A j \in index_set :
              /\ 0 <= i_of(system_model.Temperature, Tpts, j)
              /\ i_of(system_model.Temperature, Tpts, j) <= Len(Tpts) - 2
        /\ DOMAIN cycle_ambient_efficiency_correction = index_set
        /\ DOMAIN condenser_losses = index_set
        /\ raised = "None" =>
              \A j \in index_set :
                  LET T == system_model.Temperature[j]
                  IN  /\ \A k \in 1..Len(Tpts) :
                            T = Tpts[k] => Holds(j, etapts[k], wcondfpts[k])
                      /\ RLess(T, Tpts[1]) =>
                            Holds(j, OnSegment(etapts, 1, T), OnSegment(wcondfpts, 1, T))
                      /\ RLess(Tpts[Len(Tpts)], T) =>
                            Holds(j, OnSegment(etapts, Len(Tpts) - 1, T),
                                     OnSegment(wcondfpts, Len(Tpts) - 1, T))

\* the same statement for the tables whose breakpoints are uniformly spaced
C16_UniformTables == UniformlySpaced => C16_AmbientInterpolation

(***************************************************************************)
(* The schedule of a plant that reports no performance table.  The cycle   *)
(* limits are set; set_part_load_cycle_parameters is called before the     *)
(* first period, and every block gets the per-period values that           *)
(* set_ambient_temperature_cycle_parameters writes for it.  The setters    *)
(* round to the grid: fractions to FracDen-ths, powers to whole MW.        *)
(***************************************************************************)
\* x rounded to the nearest multiple of 1/den, as a numerator over den
Nearest(x, den) == (2 * x[1] * den + x[2]) \div (2 * x[2])

\* performance tables without the keys the two updates look for
FallbackTables ==
    { << >>,
      [ cycle_wcond_Tdb_table |->
            << << Rat(0, 1), Rat(1, 10) >>, << Rat(1, 1), Rat(1, 5) >> >> ] }

FallbackSystems ==
    { [ cycle_nominal_efficiency |-> Rat(1, FracDen),
        cycle_efficiency_tables  |-> tables,
        Temperature              |-> [j \in index_set |-> Zero] ] :
        tables \in FallbackTables }

\* a cycle that runs at its rating, the two fitted parameters at their default
FallbackParameterSets ==
    { [q EXCEPT !.minimum_cycle_thermal_power = FracDen,
                !.maximum_cycle_thermal_power = FracDen,
                !.cycle_performance_slope = 0,
                !.maximum_cycle_power = 0] : q \in ParameterSets }

InitFallback ==
    /\ system_model \in FallbackSystems
    /\ \E q \in FallbackParameterSets :
          par = [q EXCEPT !.cycle_nominal_efficiency =
                              Nearest(system_model.cycle_nominal_efficiency, FracDen)]
    /\ time_duration = 1
    /\ available_thermal_generation = 0
    /\ cycle_ambient_efficiency_correction = FracDen
    /\ condenser_losses = 0
    /\ model \in { m \in InitialConditions : m.is_cycle_starting_initial = 0 }
    /\ t = 0
    /\ csp = NoBlock
    /\ raised = "None"

\* the part-load parameters have been set
PartLoadSet == par.cycle_performance_slope /= 0 \/ raised /= "None"

SetPartLoadFallback ==
    /\ ~PartLoadSet
    /\ LET r == set_part_load_cycle_parameters(system_model,
                  [maximum_cycle_thermal_power |-> Rat(par.maximum_cycle_thermal_power, 1)])
       IN  /\ raised' = r.raised
           /\ par' = IF r.raised = "None"
                     THEN [par EXCEPT
                             !.cycle_performance_slope =
                                 Nearest(r.cycle_performance_slope, FracDen),
                             !.maximum_cycle_power = Nearest(r.maximum_cycle_power, 1)]
                     ELSE par
    /\ UNCHANGED << time_duration, available_thermal_generation,
                    cycle_ambient_efficiency_correction, condenser_losses,
                    model, t, csp, system_model >>

SolveFallbackPeriod ==
    /\ PartLoadSet
    /\ raised = "None"
    /\ t < Horizon
    /\ LET r == set_ambient_temperature_cycle_parameters(system_model,
                  [ cycle_ambient_efficiency_correction |-> [j \in index_set |-> NoValue],
                    condenser_losses |-> [j \in index_set |-> Zero] ],
                  system_model.Temperature)
       IN  /\ r.raised = "None"
           /\ Assign(t + 1, time_duration, par.minimum_receiver_power,
                     Nearest(r.cycle_ambient_efficiency_correction[t + 1], FracDen),
                     Nearest(r.condenser_losses[t + 1], FracDen))

NextFallback == SetPartLoadFallback \/ SolveFallbackPeriod

SpecFallback == InitFallback /\ [][NextFallback]_vars

\* C17: with neither the dedicated table nor 'ud_ind_od' among the
\* performance tables, no error is raised, cycle_performance_slope is the
\* nominal efficiency, maximum_cycle_power is maximum_cycle_thermal_power
\* times the nominal efficiency, every period's ambient correction is the
\* nominal efficiency and its condenser losses are 0, and in every period
\* cycle_generation = nominal efficiency * cycle_thermal_power
C17_Fallback ==
    /\ raised = "None"
    /\ PartLoadSet =>
          /\ par.cycle_performance_slope = par.cycle_nominal_efficiency
          /\ par.maximum_cycle_power * FracDen =
                par.maximum_cycle_thermal_power * par.cycle_nominal_efficiency
    /\ Solved =>
          /\ cycle_ambient_efficiency_correction = par.cycle_nominal_efficiency
          /\ condenser_losses = 0
          /\ csp.cycle_generation * FracDen =
                par.cycle_nominal_efficiency * csp.cycle_thermal_power

C17_Witness ==
    /\ Solved
    /\ par.cycle_nominal_efficiency < FracDen
    /\ csp.is_cycle_generating = 1
    /\ csp.cycle_generation > 0

(***************************************************************************)
(* Initial conditions taken from the state of the plant.  p holds the      *)
(* storage capacity and the required cycle startup energy, old the         *)
(* initial-condition parameters before the call; the result holds them     *)
(* after it.  An initial-condition parameter is within NonNegativeReals    *)
(* (a flag within Binary) and rejects a value outside.                     *)
(***************************************************************************)
RMin(a, b) == IF RLess(b, a) THEN b ELSE a
RMax(a, b) == IF RLess(a, b) THEN b ELSE a

\* a reading that is not a number
NaN == << 0, 0 >>

\* int() of a truth value
int_of(b) == IF b THEN 1 ELSE 0

\* the cycle counts as starting in mode 0 only
cycle_starting_in_mode_0(pc_op_mode_initial) == pc_op_mode_initial = 0

\* the modes in which the cycle counts as starting
cycle_starting(pc_op_mode_initial) ==
    pc_op_mode_initial = 0 \/ pc_op_mode_initial = 4

\* energy of the hot tank above the cold design temperature [MWht]
hot_tank_energy(csp_) ==
    LET m_des == csp_.design_storage_mass
        m_hot == RMul(csp_.initial_tes_hot_mass_fraction, m_des)
        cp == csp_.cp_htf
    IN  RMul(RMul(RDiv(RMul(cp, Rat(1, 1000000)), Rat(3600, 1)), m_hot),
             RSub(csp_.plant_state.T_tank_hot_init, csp_.htf_cold_design_temperature))

\* the inventory without the lower bound of 0
cycle_startup_inventory_unbounded(required, remain) ==
    IF remain = NaN THEN round(required, round_digits)
    ELSE LET written == round(RSub(required, RDiv(remain, Rat(1000, 1))), round_digits)
         IN  IF RLess(RMul(RSub(Rat(1, 1), Rat(1, 1000000)), required), written)
             THEN round(required, round_digits)
             ELSE written

\* initial_cycle_startup_inventory [MWht] after its assignments, from the
\* required startup energy [MWht] and the remaining startup energy [kWht]
cycle_startup_inventory(required, remain) ==
    IF remain = NaN THEN round(required, round_digits)
    ELSE LET written == round(RMax(Zero, RSub(required, RDiv(remain, Rat(1000, 1)))),
                              round_digits)
         IN  IF RLess(RMul(RSub(Rat(1, 1), Rat(1, 1000000)), required), written)
             THEN round(required, round_digits)
             ELSE written

update_initial_conditions(sm, p, old) ==
    LET csp_ == sm
        state == csp_.plant_state
        tes == round(RMin(p.storage_capacity, hot_tank_energy(csp_)), round_digits)
        inventory == cycle_startup_inventory(p.cycle_required_startup_energy,
                                             state.pc_startup_energy_remain_initial)
        generating == (state.pc_op_mode_initial = 1)
        flagged ==
            [old EXCEPT
               !.initial_thermal_energy_storage = tes,
               !.is_field_generating_initial = int_of(state.rec_op_mode_initial = 2),
               !.is_field_starting_initial = int_of(state.rec_op_mode_initial = 1),
               !.initial_cycle_startup_inventory = inventory,
               !.is_cycle_generating_initial = int_of(generating),
               !.is_cycle_starting_initial = int_of(cycle_starting(state.pc_op_mode_initial))]
        power == IF generating THEN round(state.heat_into_cycle, round_digits) ELSE Zero
    IN  IF RLess(tes, Zero)
        THEN [raised |-> "ValueError", model |-> old]
        ELSE IF RLess(power, Zero)
        THEN [raised |-> "ValueError", model |-> flagged]
        ELSE [ raised |-> "None",
               model  |-> [flagged EXCEPT !.initial_cycle_thermal_power = power] ]

(***************************************************************************)
(* The time-series parameters of a horizon that starts at start_time.      *)
(***************************************************************************)
\* array[a:b] for 0 <= a: the elements a .. b-1 (counted from 0) that exist
Slice(array, a, b) ==
    LET lo == min(a, Len(array))
        hi == max(lo, min(b, Len(array)))
    IN  [k \in 1..(hi - lo) |-> array[lo + k]]

\* the window cut at the end of the array
window_cut(array, resource, start_time, n_horizon) ==
    Slice(array, start_time, start_time + n_horizon)

\* the n_horizon values of array from start_time on; past the end of the
\* resource array, the rest of the array followed by its beginning
window(array, resource, start_time, n_horizon) ==
    IF start_time + n_horizon > Len(resource)
    THEN LET rest == Slice(array, start_time, Len(array))
         IN  rest \o Slice(array, 0, n_horizon - Len(rest))
    ELSE Slice(array, start_time, start_time + n_horizon)

\* old holds the per-period and the initial-condition parameters before the
\* call, p the broadcast parameters; the result holds them after it
update_time_series_parameters(sm, p, old, start_time) ==
    LET n_horizon == Horizon
        duration == set_per_period(old.time_duration, [k \in 1..n_horizon |-> Rat(1, 1)])
        thermal_resource == sm.solar_thermal_resource
        temperature == sm.Temperature
        field_gen == window(thermal_resource, thermal_resource, start_time, n_horizon)
        dry_bulb_temperature == window(temperature, thermal_resource, start_time, n_horizon)
        available == set_per_period(old.available_thermal_generation, field_gen)
        ambient == set_ambient_temperature_cycle_parameters(sm,
                      [ cycle_ambient_efficiency_correction |->
                            old.cycle_ambient_efficiency_correction,
                        condenser_losses |-> old.condenser_losses ],
                      dry_bulb_temperature)
        initial == update_initial_conditions(sm, p, old.model)
        timed == [old EXCEPT !.time_duration = duration.value]
        forecast == [timed EXCEPT !.available_thermal_generation = available.value]
        corrected == [forecast EXCEPT
                        !.cycle_ambient_efficiency_correction =
                            ambient.cycle_ambient_efficiency_correction,
                        !.condenser_losses = ambient.condenser_losses]
    IN  IF duration.raised /= "None" THEN [raised |-> duration.raised, new |-> timed]
        ELSE IF available.raised /= "None" THEN [raised |-> available.raised, new |-> forecast]
        ELSE IF ambient.raised /= "None" THEN [raised |-> ambient.raised, new |-> corrected]
        ELSE [ raised |-> initial.raised,
               new    |-> [corrected EXCEPT !.model = initial.model] ]

(***************************************************************************)
(* Rolling horizons over the forecast of a plant.  The arrays of the       *)
(* plant cover at least one horizon; a horizon starts at an hour of the    *)
(* year, 0 .. L-1.  The state after construction: the per-period and       *)
(* initial-condition parameters at their defaults.                         *)
(***************************************************************************)
MaxLen == 4

\* resource of hour i: none in the hours of Z, i + 1/8 MWt in the others
ResourceArrays(L) ==
    { [i \in 1..L |-> IF i \in Z THEN Zero ELSE Rat(8 * i + 1, 8)] : Z \in SUBSET (1..L) }

\* temperature of hour i: rising or falling by one degree an hour
TemperatureArrays(L) ==
    { [i \in 1..L |-> Rat(i - 1, 1)], [i \in 1..L |-> Rat(L - i, 1)] }

ForecastTables ==
    [ cycle_eff_Tdb_table   |-> << << Rat(0, 1), Rat(1, 1) >>, << Rat(1, 1), Rat(9, 10) >> >>,
      cycle_wcond_Tdb_table |-> << << Rat(0, 1), Rat(1, 10) >>, << Rat(1, 1), Rat(11, 100) >> >> ]

\* the plant between two horizons: field generating, cycle generating
RunningPlant ==
    [ T_tank_hot_init                  |-> Rat(300, 1),
      rec_op_mode_initial              |-> 2,
      pc_op_mode_initial               |-> 1,
      pc_startup_energy_remain_initial |-> NaN,
      heat_into_cycle                  |-> Rat(1, 1) ]

ForecastSystems ==
    UNION { { [ solar_thermal_resource        |-> resource,
                Temperature                   |-> temperature,
                cycle_nominal_efficiency      |-> NominalEfficiency,
                cycle_efficiency_tables       |-> ForecastTables,
                design_storage_mass           |-> Rat(100000, 1),
                initial_tes_hot_mass_fraction |-> Rat(1, 1),
                cp_htf                        |-> Rat(3600, 1),
                htf_cold_design_temperature   |-> Rat(290, 1),
                plant_state                   |-> RunningPlant ] :
              resource \in ResourceArrays(L), temperature \in TemperatureArrays(L) } :
            L \in Horizon..MaxLen }

\* the initial-condition parameters at their defaults, as fractions
DefaultInitialFractions ==
    [ initial_thermal_energy_storage     |-> Zero,
      initial_receiver_startup_inventory |-> Zero,
      is_field_generating_initial        |-> 0,
      is_field_starting_initial          |-> 0,
      initial_cycle_startup_inventory    |-> Zero,
      initial_cycle_thermal_power        |-> Zero,
      is_cycle_generating_initial        |-> 0,
      is_cycle_starting_initial          |-> 0 ]

\* the broadcast parameters an update reads, as fractions
Broadcast ==
    [ storage_capacity              |-> Rat(par.storage_capacity, 1),
      cycle_required_startup_energy |-> Rat(par.cycle_required_startup_energy, 1) ]

InitForecast ==
    /\ system_model \in ForecastSystems
    /\ par \in ParameterSets
    /\ time_duration = [k \in index_set |-> Rat(1, 1)]
    /\ available_thermal_generation = [k \in index_set |-> Zero]
    /\ cycle_ambient_efficiency_correction = [k \in index_set |-> NoValue]
    /\ condenser_losses = [k \in index_set |-> Zero]
    /\ model = DefaultInitialFractions
    /\ t = 0
    /\ csp = NoBlock
    /\ raised = "None"

\* the parameters an update may write
Written ==
    [ time_duration                       |-> time_duration,
      available_thermal_generation        |-> available_thermal_generation,
      cycle_ambient_efficiency_correction |-> cycle_ambient_efficiency_correction,
      condenser_losses                    |-> condenser_losses,
      model                               |-> model ]

\* one call of update_time_series_parameters
UpdateTimeSeries(start_time) ==
    /\ raised = "None"
    /\ \E r \in { update_time_series_parameters(system_model, Broadcast, Written, start_time) } :
           /\ raised' = r.raised
           /\ time_duration' = r.new.time_duration
           /\ available_thermal_generation' = r.new.available_thermal_generation
           /\ cycle_ambient_efficiency_correction' = r.new.cycle_ambient_efficiency_correction
           /\ condenser_losses' = r.new.condenser_losses
           /\ model' = r.new.model
    /\ UNCHANGED << par, t, csp, system_model >>

\* the hours of the year
StartTimes == 0..(Len(system_model.solar_thermal_resource) - 1)

NextForecast == \E start_time \in StartTimes : UpdateTimeSeries(start_time)

SpecForecast == InitForecast /\ [][NextForecast]_vars

\* the value of hour (start_time + k) mod L of an array of the plant
Hour(array, start_time, k) == array[((start_time + k) % Len(array)) + 1]

\* C18: with a forecast array of length L, a call for the horizon starting
\* at start_time sets available_thermal_generation to exactly n values, the
\* k-th (k = 0..n-1) being the rounded forecast of hour (start_time + k)
\* mod L, and the ambient corrections are those of the temperatures of the
\* same hours: a window running past the end of the array continues from
\* its beginning
C18_ForecastWindow ==
    [][ \A start_time \in StartTimes :
          UpdateTimeSeries(start_time) =>
              /\ raised' = "None"
              /\ DOMAIN available_thermal_generation' = 1..Horizon
              /\ \A k \in 0..(Horizon - 1) :
                    available_thermal_generation'[k + 1] =
                        round(Hour(system_model.solar_thermal_resource, start_time, k),
                              round_digits)
              /\ LET same == set_ambient_temperature_cycle_parameters(system_model,
                                [ cycle_ambient_efficiency_correction |->
                                      cycle_ambient_efficiency_correction,
                                  condenser_losses |-> condenser_losses ],
                                [k \in 1..Horizon |->
                                    Hour(system_model.Temperature, start_time, k - 1)])
                 IN  /\ cycle_ambient_efficiency_correction' =
                            same.cycle_ambient_efficiency_correction
                     /\ condenser_losses' = same.condenser_losses ]_vars

\* a horizon starting in the last hour of the year holds the forecast of
\* that hour, then of the first hours
C18_Witness ==
    LET resource == system_model.solar_thermal_resource
    IN  /\ \A i \in 1..Len(resource) : resource[i] /= Zero
        /\ available_thermal_generation[1] = round(resource[Len(resource)], round_digits)
        /\ \A k \in 2..Horizon :
              available_thermal_generation[k] = round(resource[k - 1], round_digits)
        /\ cycle_ambient_efficiency_correction[first] /= NoValue

(***************************************************************************)
(* The initial conditions taken from snapshots of the plant.  The          *)
(* initial-condition parameters hold their defaults or the values of the   *)
(* previous horizon.                                                       *)
(***************************************************************************)
\* hot-tank temperatures around the cold design temperature of 290
TankTemperatures == { Rat(280, 1), Rat(290, 1), Rat(300, 1), Rat(310, 1), Rat(320, 1) }
ReceiverModes == 0..2
CycleModes == 0..4
\* remaining cycle startup energy [kWht]
RemainingStartupEnergy ==
    { NaN, Rat(-500, 1), Rat(0, 1), Rat(1, 1000), Rat(1, 1), Rat(500, 1),
      Rat(2469, 2), Rat(2000, 1), Rat(3000, 1) }
HeatIntoCycle == { Zero, Rat(9, 8) }

PlantStates ==
    [ T_tank_hot_init                  : TankTemperatures,
      rec_op_mode_initial              : ReceiverModes,
      pc_op_mode_initial               : CycleModes,
      pc_startup_energy_remain_initial : RemainingStartupEnergy,
      heat_into_cycle                  : HeatIntoCycle ]

\* a storage of 0.1 MWht per kelvin when all its mass is in the hot tank
PlantSystems ==
    { [ design_storage_mass           |-> Rat(100000, 1),
        initial_tes_hot_mass_fraction |-> fraction,
        cp_htf                        |-> Rat(3600, 1),
        htf_cold_design_temperature   |-> Rat(290, 1),
        plant_state                   |-> state ] :
        fraction \in { Rat(1, 2), Rat(1, 1) }, state \in PlantStates }

\* the initial conditions of a previous horizon: 1 MWht stored, field and
\* cycle generating
PreviousInitialFractions ==
    [ DefaultInitialFractions EXCEPT
        !.initial_thermal_energy_storage = Rat(1, 1),
        !.is_field_generating_initial = 1,
        !.initial_cycle_thermal_power = Rat(1, 1),
        !.is_cycle_generating_initial = 1 ]

InitInitialConditions ==
    /\ system_model \in PlantSystems
    /\ par \in ParameterSets
    /\ time_duration = [k \in index_set |-> Rat(1, 1)]
    /\ available_thermal_generation = [k \in index_set |-> Zero]
    /\ cycle_ambient_efficiency_correction = [k \in index_set |-> NoValue]
    /\ condenser_losses = [k \in index_set |-> Zero]
    /\ model \in { DefaultInitialFractions, PreviousInitialFractions }
    /\ t = 0
    /\ csp = NoBlock
    /\ raised = "None"

\* one call of update_initial_conditions
UpdateInitialConditions ==
    /\ raised = "None"
    /\ LET r == update_initial_conditions(system_model, Broadcast, model)
       IN  /\ raised' = r.raised
           /\ model' = r.model
    /\ UNCHANGED << par, time_duration, available_thermal_generation,
                    cycle_ambient_efficiency_correction, condenser_losses,
                    t, csp, system_model >>

NextInitialConditions == UpdateInitialConditions

SpecInitialConditions == InitInitialConditions /\ [][NextInitialConditions]_vars

\* the hot-tank energy brought into [0, storage_capacity], as it is stored
ClampedEnergy ==
    round(RMax(Zero, RMin(Broadcast.storage_capacity, hot_tank_energy(system_model))),
          round_digits)

\* C19: for every snapshot of the plant, a call of update_initial_conditions
\* sets initial_thermal_energy_storage to the hot-tank energy clamped to
\* [0, storage_capacity]: to the capacity when the energy is above it, to 0
\* when the hot tank is below the cold design temperature
C19_ClampedStorage ==
    [][ UpdateInitialConditions =>
          /\ raised' = "None"
          /\ model'.initial_thermal_energy_storage = ClampedEnergy ]_vars

\* the same statement for the snapshots whose hot tank is not below the
\* cold design temperature
C19_NotBelowCold ==
    [][ ( /\ UpdateInitialConditions
          /\ ~RLess(system_model.plant_state.T_tank_hot_init,
                    system_model.htf_cold_design_temperature) ) =>
          /\ raised' = "None"
          /\ model'.initial_thermal_energy_storage = ClampedEnergy ]_vars

\* C20: after a call of update_initial_conditions, is_field_generating_initial
\* is 1 iff the receiver mode is 2 and is_field_starting_initial is 1 iff it
\* is 1; is_cycle_generating_initial is 1 iff the cycle mode is 1 and
\* is_cycle_starting_initial is 1 iff it is 0 or 4; no device has both flags
\* set; initial_cycle_thermal_power is the reported heat into the cycle when
\* the cycle is generating and 0 otherwise
C20_ModeFlags ==
    [][ (UpdateInitialConditions /\ raised' = "None") =>
          LET state == system_model.plant_state
          IN  /\ model'.is_field_generating_initial \in Binary
              /\ model'.is_field_starting_initial \in Binary
              /\ model'.is_cycle_generating_initial \in Binary
              /\ model'.is_cycle_starting_initial \in Binary
              /\ model'.is_field_generating_initial = 1 <=> state.rec_op_mode_initial = 2
              /\ model'.is_field_starting_initial = 1 <=> state.rec_op_mode_initial = 1
              /\ model'.is_cycle_generating_initial = 1 <=> state.pc_op_mode_initial = 1
              /\ model'.is_cycle_starting_initial = 1 <=> state.pc_op_mode_initial \in {0, 4}
              /\ model'.is_field_generating_initial + model'.is_field_starting_initial <= 1
              /\ model'.is_cycle_generating_initial + model'.is_cycle_starting_initial <= 1
              /\ model'.initial_cycle_thermal_power =
                    IF model'.is_cycle_generating_initial = 1
                    THEN round(state.heat_into_cycle, round_digits)
                    ELSE Zero ]_vars

\* a field that is starting and a cycle that takes heat
C20_Witness ==
    /\ "plant_state" \in DOMAIN system_model
    /\ system_model.plant_state.rec_op_mode_initial = 1
    /\ system_model.plant_state.pc_op_mode_initial = 1
    /\ model.is_field_starting_initial = 1
    /\ model.is_field_generating_initial = 0
    /\ model.is_cycle_generating_initial = 1
    /\ model.initial_cycle_thermal_power = round(Rat(9, 8), round_digits)

\* what the inventory is said to be, for a remaining energy that is a number
SaidInventory(required, remain) ==
    LET remaining == RDiv(remain, Rat(1000, 1))
        difference == RSub(required, remaining)
    IN  IF RLess(RMul(RSub(Rat(1, 1), Rat(1, 1000000)), required), difference)
        THEN required
        ELSE IF ~RLess(remaining, required) THEN Zero
        ELSE difference

\* C21: for every reading of the remaining startup energy, a number or NaN,
\* a call of update_initial_conditions leaves initial_cycle_startup_inventory
\* within [0, cycle_required_startup_energy]: the requirement when the
\* reading is NaN or when requirement minus remaining exceeds (1 - 1e-6)
\* times the requirement, 0 when the remaining energy is at least the
\* requirement, and requirement minus remaining (in MWht, rounded as stored)
\* otherwise
C21_StartupInventory ==
    [][ (UpdateInitialConditions /\ raised' = "None") =>
          LET remain == system_model.plant_state.pc_startup_energy_remain_initial
              required == Broadcast.cycle_required_startup_energy
              inventory == model'.initial_cycle_startup_inventory
          IN  /\ ~RLess(inventory, Zero)
              /\ ~RLess(required, inventory)
              /\ remain = NaN => inventory = required
              /\ remain /= NaN =>
                    inventory = round(SaidInventory(required, remain), round_digits) ]_vars

\* a cycle a quarter of the way from completing its startup
C21_Witness ==
    /\ "plant_state" \in DOMAIN system_model
    /\ system_model.plant_state.pc_startup_energy_remain_initial = Rat(500, 1)
    /\ raised = "None"
    /\ model.initial_cycle_startup_inventory = Rat(3, 2)

\* the bounds of the variables of the first block that the written initial
\* conditions are linked to, and the exclusion of its flags
WithinFirstBlockBounds(ic) ==
    /\ ~RLess(ic.initial_thermal_energy_storage, Zero)
    /\ ~RLess(Rat(par.storage_capacity, 1), ic.initial_thermal_energy_storage)
    /\ ic.is_field_generating_initial \in Binary
    /\ ic.is_field_starting_initial \in Binary
    /\ ic.is_cycle_generating_initial \in Binary
    /\ ic.is_cycle_starting_initial \in Binary
    /\ ic.is_field_generating_initial + ic.is_field_starting_initial <= 1
    /\ ic.is_cycle_generating_initial + ic.is_cycle_starting_initial <= 1

WithinCyclePowerBounds(ic) ==
    /\ ~RLess(ic.initial_cycle_thermal_power, Zero)
    /\ ~RLess(Rat(par.maximum_cycle_thermal_power, 1), ic.initial_cycle_thermal_power)

\* C30: for every snapshot of the plant, the values written by a call of
\* update_initial_conditions lie within the bounds of the variables of the
\* first block they are linked to: the storage within [0, storage_capacity],
\* the cycle thermal power within [0, maximum_cycle_thermal_power], the flags
\* in {0, 1} with no device both generating and starting
C30_CompatibleWithFirstPeriod ==
    [][ (UpdateInitialConditions /\ raised' = "None") =>
          /\ WithinFirstBlockBounds(model')
          /\ WithinCyclePowerBounds(model') ]_vars

\* the same statement without the bound of the cycle thermal power above
C30_StorageAndFlags ==
    [][ (UpdateInitialConditions /\ raised' = "None") =>
          /\ WithinFirstBlockBounds(model')
          /\ ~RLess(model'.initial_cycle_thermal_power, Zero) ]_vars

(***************************************************************************)
(* Assignments to the per-period parameters and to a broadcast parameter.  *)
(* A broadcast parameter is held by every block: par.storage_capacity is   *)
(* here the value of each block.  The state after construction: every      *)
(* parameter at its default.  An exception ends the call only.             *)
(***************************************************************************)
\* the getter of a per-period parameter: the values in the order of the blocks
get_per_period(blocks) == [k \in 1..Horizon |-> blocks[k]]

\* the setter of a broadcast parameter whose blocks hold old: every block is
\* given the rounded value; the first block rejects a negative one
set_broadcast(old, value) ==
    IF RLess(round(value, round_digits), Zero)
    THEN [raised |-> "ValueError", value |-> old]
    ELSE [raised |-> "None", value |-> [k \in index_set |-> round(value, round_digits)]]

\* the getter of a broadcast parameter: the value of the first block
get_broadcast(blocks) == blocks[first]

\* lists shorter than, as long as and longer than the horizon
ListLengths == { 0, Horizon - 1, Horizon, Horizon + 1 }

\* a constant list, a list rising by one from period to period, and a list
\* with a negative value in its first place
AssignedLists ==
    UNION { { [k \in 1..n |-> Rat(9, 8)],
              [k \in 1..n |-> Rat(16 * k + 3, 16)],
              [k \in 1..n |-> IF k = 1 THEN Rat(-1, 1) ELSE Rat(1, 2)] } : n \in ListLengths }

AssignedCapacities == { Rat(9, 8), Rat(3, 1), Rat(-1, 1) }

InitSetters ==
    /\ system_model = NoSystemModel
    /\ par = [storage_capacity |-> [k \in index_set |-> Zero]]
    /\ time_duration = [k \in index_set |-> Rat(1, 1)]
    /\ available_thermal_generation = [k \in index_set |-> Zero]
    /\ cycle_ambient_efficiency_correction = [k \in index_set |-> NoValue]
    /\ condenser_losses = [k \in index_set |-> Zero]
    /\ model = DefaultInitialFractions
    /\ t = 0
    /\ csp = NoBlock
    /\ raised = "None"

SetTimeDuration(list) ==
    /\ \E r \in { set_per_period(time_duration, list) } :
          /\ raised' = r.raised
          /\ time_duration' = r.value
    /\ UNCHANGED << par, available_thermal_generation, cycle_ambient_efficiency_correction,
                    condenser_losses, model, t, csp, system_model >>

SetAvailableThermalGeneration(list) ==
    /\ \E r \in { set_per_period(available_thermal_generation, list) } :
          /\ raised' = r.raised
          /\ available_thermal_generation' = r.value
    /\ UNCHANGED << par, time_duration, cycle_ambient_efficiency_correction,
                    condenser_losses, model, t, csp, system_model >>

SetCycleAmbientEfficiencyCorrection(list) ==
    /\ \E r \in { set_per_period(cycle_ambient_efficiency_correction, list) } :
          /\ raised' = r.raised
          /\ cycle_ambient_efficiency_correction' = r.value
    /\ UNCHANGED << par, time_duration, available_thermal_generation,
                    condenser_losses, model, t, csp, system_model >>

SetCondenserLosses(list) ==
    /\ \E r \in { set_per_period(condenser_losses, list) } :
          /\ raised' = r.raised
          /\ condenser_losses' = r.value
    /\ UNCHANGED << par, time_duration, available_thermal_generation,
                    cycle_ambient_efficiency_correction, model, t, csp, system_model >>

SetStorageCapacity(energy) ==
    /\ \E r \in { set_broadcast(par.storage_capacity, energy) } :
          /\ raised' = r.raised
          /\ par' = [par EXCEPT !.storage_capacity = r.value]
    /\ UNCHANGED << time_duration, available_thermal_generation,
                    cycle_ambient_efficiency_correction, condenser_losses,
                    model, t, csp, system_model >>

NextSetters ==
    \/ \E list \in AssignedLists : SetTimeDuration(list)
    \/ \E list \in AssignedLists : SetAvailableThermalGeneration(list)
    \/ \E list \in AssignedLists : SetCycleAmbientEfficiencyCorrection(list)
    \/ \E list \in AssignedLists : SetCondenserLosses(list)
    \/ \E energy \in AssignedCapacities : SetStorageCapacity(energy)

SpecSetters == InitSetters /\ [][NextSetters]_vars

\* C22: the assignment of a list whose length is not the number of blocks
\* to time_duration, available_thermal_generation,
\* cycle_ambient_efficiency_correction or condenser_losses ends with an
\* error and leaves the value of every block as it was
C22_LengthMismatch ==
    [][ \A list \in AssignedLists :
          Len(list) /= Horizon =>
              /\ SetTimeDuration(list) =>
                    (raised' /= "None" /\ time_duration' = time_duration)
              /\ SetAvailableThermalGeneration(list) =>
                    (raised' /= "None" /\
                     available_thermal_generation' = available_thermal_generation)
              /\ SetCycleAmbientEfficiencyCorrection(list) =>
                    (raised' /= "None" /\
                     cycle_ambient_efficiency_correction' = cycle_ambient_efficiency_correction)
              /\ SetCondenserLosses(list) =>
                    (raised' /= "None" /\ condenser_losses' = condenser_losses) ]_vars

\* a list of another length was rejected and the forecast assigned before
\* is still held
C22_Witness ==
    /\ raised = "AttributeError"
    /\ \A k \in index_set : available_thermal_generation[k] = Rat(100 * k + 19, 100)
    /\ \A k \in index_set : time_duration[k] = Rat(1, 1)

\* y is x rounded to ndigits digits: a multiple of 10^-ndigits at most half
\* a unit away from x
IsRounded(x, y, ndigits) ==
    LET difference == RSub(y, x)
    IN  /\ Pow10(ndigits) % y[2] = 0
        /\ ~RLess(Rat(1, 2 * Pow10(ndigits)), difference)
        /\ ~RLess(difference, Rat(-1, 2 * Pow10(ndigits)))

\* reading blocks returns, in the order of the periods, the values of list
\* rounded
ReadsRounded(blocks, list) ==
    LET read == get_per_period(blocks)
    IN  /\ Len(read) = Len(list)
        /\ \A k \in 1..Len(list) : IsRounded(list[k], read[k], round_digits)

\* C23: after the assignment of a list of horizon length to a per-period
\* parameter, reading the parameter returns, in period order, each value of
\* the list rounded to round_digits digits; after the assignment of a scalar
\* to storage_capacity, every block holds the same rounded value and the
\* getter returns it
C23_RoundTrip ==
    [][ /\ \A list \in AssignedLists :
             /\ (SetTimeDuration(list) /\ raised' = "None") =>
                   ReadsRounded(time_duration', list)
             /\ (SetAvailableThermalGeneration(list) /\ raised' = "None") =>
                   ReadsRounded(available_thermal_generation', list)
             /\ (SetCycleAmbientEfficiencyCorrection(list) /\ raised' = "None") =>
                   ReadsRounded(cycle_ambient_efficiency_correction', list)
             /\ (SetCondenserLosses(list) /\ raised' = "None") =>
                   ReadsRounded(condenser_losses', list)
        /\ \A energy \in AssignedCapacities :
             (SetStorageCapacity(energy) /\ raised' = "None") =>
                 /\ IsRounded(energy, get_broadcast(par'.storage_capacity), round_digits)
                 /\ \A k \in index_set :
                       par'.storage_capacity[k] = get_broadcast(par'.storage_capacity) ]_vars

\* 1.125 assigned to every period and to the capacity reads 1.12
C23_Witness ==
    /\ raised = "None"
    /\ DOMAIN par = {"storage_capacity"}
    /\ \A k \in index_set : condenser_losses[k] = Rat(28, 25)
    /\ \A k \in index_set : par.storage_capacity[k] = Rat(28, 25)

\* C27: on a list of another length than the horizon, the setters of the
\* per-period parameters raise a ValueError, not an exception of another
\* type met while the message is built
C27_ValueError ==
    [][ \A list \in AssignedLists :
          Len(list) /= Horizon =>
              /\ SetTimeDuration(list) => raised' = "ValueError"
              /\ SetAvailableThermalGeneration(list) => raised' = "ValueError"
              /\ SetCycleAmbientEfficiencyCorrection(list) => raised' = "ValueError"
              /\ SetCondenserLosses(list) => raised' = "ValueError" ]_vars

(***************************************************************************)
(* Horizon after horizon: before each call of                              *)
(* update_time_series_parameters the plant has been simulated and its      *)
(* state is the latest snapshot.                                           *)
(***************************************************************************)
\* snapshots: receiver off and generating, cycle generating and off
RollingStates ==
    [ T_tank_hot_init                  : { Rat(300, 1) },
      rec_op_mode_initial              : { 0, 2 },
      pc_op_mode_initial               : { 1, 3 },
      pc_startup_energy_remain_initial : { NaN, Rat(500, 1) },
      heat_into_cycle                  : { Rat(9, 8) } ]

\* a year one hour longer than the horizon
RollingSystems ==
    { [ solar_thermal_resource        |-> [i \in 1..(Horizon + 1) |-> Rat(8 * i + 1, 8)],
        Temperature                   |-> temperature,
        cycle_nominal_efficiency      |-> NominalEfficiency,
        cycle_efficiency_tables       |-> ForecastTables,
        design_storage_mass           |-> Rat(100000, 1),
        initial_tes_hot_mass_fraction |-> Rat(1, 1),
        cp_htf                        |-> Rat(3600, 1),
        htf_cold_design_temperature   |-> Rat(290, 1),
        plant_state                   |-> RunningPlant ] :
        temperature \in TemperatureArrays(Horizon + 1) }

\* the parameters of a dispatch after construction
Constructed ==
    [ time_duration                       |-> [k \in index_set |-> Rat(1, 1)],
      available_thermal_generation        |-> [k \in index_set |-> Zero],
      cycle_ambient_efficiency_correction |-> [k \in index_set |-> NoValue],
      condenser_losses                    |-> [k \in index_set |-> Zero],
      model                               |-> DefaultInitialFractions ]

InitRolling ==
    /\ system_model \in RollingSystems
    /\ par \in ParameterSets
    /\ time_duration = Constructed.time_duration
    /\ available_thermal_generation = Constructed.available_thermal_generation
    /\ cycle_ambient_efficiency_correction = Constructed.cycle_ambient_efficiency_correction
    /\ condenser_losses = Constructed.condenser_losses
    /\ model = Constructed.model
    /\ t = 0
    /\ csp = NoBlock
    /\ raised = "None"

\* one call of update_time_series_parameters on the latest snapshot
Rebuild(start_time, state) ==
    /\ raised = "None"
    /\ system_model' = [system_model EXCEPT !.plant_state = state]
    /\ \E r \in { update_time_series_parameters(system_model', Broadcast, Written, start_time) } :
           /\ raised' = r.raised
           /\ time_duration' = r.new.time_duration
           /\ available_thermal_generation' = r.new.available_thermal_generation
           /\ cycle_ambient_efficiency_correction' = r.new.cycle_ambient_efficiency_correction
           /\ condenser_losses' = r.new.condenser_losses
           /\ model' = r.new.model
    /\ UNCHANGED << par, t, csp >>

\* the receiver startup inventory assigned by the caller of the dispatch
AssignedInventories == { Zero, Rat(1, 1) }

\* the setter of initial_receiver_startup_inventory
SetInitialReceiverStartupInventory(initial_energy) ==
    /\ raised = "None"
    /\ ~RLess(round(initial_energy, round_digits), Zero)
    /\ model' = [model EXCEPT
                   !.initial_receiver_startup_inventory = round(initial_energy, round_digits)]
    /\ UNCHANGED << par, time_duration, available_thermal_generation,
                    cycle_ambient_efficiency_correction, condenser_losses,
                    t, csp, system_model, raised >>

NextRolling ==
    \/ \E start_time \in StartTimes, state \in RollingStates : Rebuild(start_time, state)
    \/ \E initial_energy \in AssignedInventories :
          SetInitialReceiverStartupInventory(initial_energy)

SpecRolling == InitRolling /\ [][NextRolling]_vars

\* C24: after any sequence of calls of update_time_series_parameters, every
\* per-period parameter of every block and every initial-condition parameter
\* (initial storage, initial receiver startup inventory, initial cycle
\* startup inventory, initial cycle thermal power, the four mode flags)
\* holds the value that the latest call computes from its start time and
\* the latest snapshot of the plant, never a value left from before: the
\* values are those the same call leaves in a dispatch just constructed
C24_NoStaleValues ==
    [][ \A start_time \in StartTimes :
          (Rebuild(start_time, system_model'.plant_state) /\ raised' = "None") =>
              Written' = update_time_series_parameters(system_model', Broadcast,
                                                        Constructed, start_time).new ]_vars

\* the parameters but the initial receiver startup inventory
Recomputed(written) ==
    [ written EXCEPT !.model =
        [ written.model EXCEPT !.initial_receiver_startup_inventory = Zero ] ]

\* the same statement for every parameter but the initial receiver startup
\* inventory
C24_RecomputedParameters ==
    [][ \A start_time \in StartTimes :
          (Rebuild(start_time, system_model'.plant_state) /\ raised' = "None") =>
              Recomputed(Written') =
                  Recomputed(update_time_series_parameters(system_model', Broadcast,
                                                           Constructed, start_time).new) ]_vars

(***************************************************************************)
(* The table interval the part-load fit uses for an end of the operating   *)
(* range.                                                                  *)
(***************************************************************************)
\* the load fractions and the efficiencies of the table of the plant
NormHeatPts ==
    LET tb == system_model.cycle_efficiency_tables.cycle_eff_load_table
    IN  [i \in 1..Len(tb) |-> RDiv(tb[i][1], system_model.cycle_thermal_rating)]

EfficiencyPts ==
    LET tb == system_model.cycle_efficiency_tables.cycle_eff_load_table
    IN  [i \in 1..Len(tb) |-> tb[i][2]]

\* end j of the operating range, as a load fraction
RangeFraction(j) ==
    IF j = 1 THEN system_model.cycle_cutoff_frac ELSE system_model.cycle_max_frac

\* the index (from 0) of the table interval the fit uses for end j
IntervalIndex(j) ==
    set_part_load_cycle_parameters(system_model, par).p[j]

\* the load fractions of the table are equally spaced
UniformLoadTable ==
    \A i \in 1..(Len(NormHeatPts) - 1) :
        RSub(NormHeatPts[i + 1], NormHeatPts[i]) = RSub(NormHeatPts[2], NormHeatPts[1])

\* for end j: the interval is one of the table, holds the end, and the
\* efficiency used is the linear interpolation over that interval
Brackets(j) ==
    LET f == RangeFraction(j)
        p == IntervalIndex(j)
        lo == NormHeatPts[p + 1]
        hi == NormHeatPts[p + 2]
    IN  /\ 0 <= p
        /\ p <= Len(NormHeatPts) - 2
        /\ ~RLess(f, lo)
        /\ ~RLess(hi, f)
        /\ EndEfficiency(j) =
              RAdd(EfficiencyPts[p + 1],
                   RMul(RSub(EfficiencyPts[p + 2], EfficiencyPts[p + 1]),
                        RDiv(RSub(f, lo), RSub(hi, lo))))

\* end j lies within the range of the table
WithinTable(j) ==
    /\ ~RLess(RangeFraction(j), NormHeatPts[1])
    /\ ~RLess(NormHeatPts[Len(NormHeatPts)], RangeFraction(j))

\* C25: for every table with strictly increasing load fractions, uniformly
\* spaced or not, and each end f of the operating range within the range of
\* the table, the interval [pts[p], pts[p+1]] used by
\* set_linearized_cycle_part_load_params holds f, 0 <= p <= len - 2, and
\* the efficiency used for the end is the linear interpolation between the
\* two tabulated efficiencies of that interval
C25_BracketingInterval ==
    Fitted => \A j \in 1..2 : WithinTable(j) => Brackets(j)

\* the same statement for the tables whose load fractions are equally spaced
C25_UniformTables ==
    (Fitted /\ UniformLoadTable) => \A j \in 1..2 : WithinTable(j) => Brackets(j)

(***************************************************************************)
(* The part-load fit of a plant that gives the combined user-defined table *)
(* 'ud_ind_od': rows <<T_htf, m_dot, T_amb, W_dot, Q_dot, W_cool, ...>>,   *)
(* three blocks over the HTF temperatures, three over the mass flows,      *)
(* three over the ambient temperatures.  Tables cut short are among the    *)
(* inputs.                                                                 *)
(***************************************************************************)
MaxSeg == 3

UserDefinedRow(T, m, Tamb) ==
    << Rat(T, 1), Rat(m, 2), Rat(Tamb, 1), Rat(1, 1), Rat(1, 1), Rat(1, 1) >>

\* nT temperatures at each of three mass-flow levels, nm mass flows at each
\* of three ambient levels, nTamb ambient temperatures at each of three
\* temperature levels
UserDefinedTable(nT, nm, nTamb) ==
    [r \in 1..(3 * nT) |-> UserDefinedRow(((r - 1) % nT) + 1, ((r - 1) \div nT) + 1, 2)]
    \o [r \in 1..(3 * nm) |-> UserDefinedRow(2, ((r - 1) % nm) + 1, ((r - 1) \div nm) + 1)]
    \o [r \in 1..(3 * nTamb) |->
           UserDefinedRow(((r - 1) \div nTamb) + 1, 2, ((r - 1) % nTamb) + 1)]

\* the tables and their beginnings
UserDefinedTables ==
    UNION { { SubSeq(UserDefinedTable(nT, nm, nTamb), 1, rows) :
                rows \in 0..(3 * (nT + nm + nTamb)) } :
            nT \in 1..MaxSeg, nm \in 1..MaxSeg, nTamb \in 1..MaxSeg }

UserDefinedSystems ==
    { [ cycle_thermal_rating     |-> Rat(1, 1),
        cycle_cutoff_frac        |-> Rat(1, 2),
        cycle_max_frac           |-> Rat(1, 1),
        cycle_nominal_efficiency |-> NominalEfficiency,
        cycle_efficiency_tables  |-> [ ud_ind_od |-> data ] ] :
        data \in UserDefinedTables }

InitUserDefined ==
    /\ system_model \in UserDefinedSystems
    /\ par = [ maximum_cycle_thermal_power |->
                 RMul(system_model.cycle_max_frac, system_model.cycle_thermal_rating) ]
    /\ time_duration = 1
    /\ available_thermal_generation = 0
    /\ cycle_ambient_efficiency_correction = FracDen
    /\ condenser_losses = 0
    /\ model = DefaultInitialConditions
    /\ t = 0
    /\ csp = NoBlock
    /\ raised = "None"

SpecUserDefined == InitUserDefined /\ [][NextPartLoad]_vars

\* the column decreases from row i to row i + 1 (rows counted from 0)
Decreases(data, i, col) ==
    /\ i + 2 <= Len(data)
    /\ RLess(data[i + 2][col], data[i + 1][col])

\* n - 1 is the first index, counted from row i0, at which the column
\* decreases between adjacent rows
IsFirstDecrease(data, i0, col, n) ==
    /\ n >= 1
    /\ Decreases(data, i0 + n - 1, col)
    /\ \A k \in 0..(n - 2) : ~Decreases(data, i0 + k, col)

\* the column, scanned from row i0, has no decreasing adjacent pair
NoDecrease(data, i0, col) ==
    \A k \in 0..(Len(data) - 2) : ~Decreases(data, i0 + k, col)

\* one of the columns scanned has no decreasing adjacent pair
NoSegment(data) ==
    \/ NoDecrease(data, 0, 1)
    \/ \E n \in 1..Len(data) :
          /\ IsFirstDecrease(data, 0, 1, n)
          /\ \/ NoDecrease(data, 3 * n, 2)
             \/ \E m \in 1..Len(data) :
                   /\ IsFirstDecrease(data, 3 * n, 2, m)
                   /\ NoDecrease(data, 3 * n + 3 * m, 3)

\* C26: interpret_user_defined_cycle_data returns nT = 1 + the first index
\* at which column 0 decreases between adjacent rows, nm = 1 + the first
\* such index of column 1 counted from row 3*nT, nTamb = 1 + the first such
\* index of column 2 counted from row 3*nT + 3*nm, and Tpts, mpts, Tambpts
\* are the first nT, nm, nTamb values of their columns from those rows;
\* when a scanned column has no decreasing adjacent pair the call fails
\* with an error and returns nothing
C26_SegmentDetection ==
    [][ SetPartLoad =>
          LET data == system_model.cycle_efficiency_tables.ud_ind_od
              D == interpret_user_defined_cycle_data(data)
          IN  /\ NoSegment(data) => (D.raised /= "None" /\ raised' /= "None")
              /\ D.raised = "None" =>
                    /\ IsFirstDecrease(data, 0, 1, D.nT)
                    /\ IsFirstDecrease(data, 3 * D.nT, 2, D.nm)
                    /\ IsFirstDecrease(data, 3 * D.nT + 3 * D.nm, 3, D.nTamb)
                    /\ D.Tpts = [k \in 1..D.nT |-> data[k][1]]
                    /\ D.mpts = [k \in 1..D.nm |-> data[3 * D.nT + k][2]]
                    /\ D.Tambpts =
                          [k \in 1..D.nTamb |-> data[3 * D.nT + 3 * D.nm + k][3]] ]_vars

\* the fit made from a whole table of two temperatures, two mass flows and
\* two ambient temperatures
C26_Witness ==
    /\ Fitted
    /\ "ud_ind_od" \in DOMAIN system_model.cycle_efficiency_tables
    /\ system_model.cycle_efficiency_tables.ud_ind_od = UserDefinedTable(2, 2, 2)
    /\ interpret_user_defined_cycle_data(system_model.cycle_efficiency_tables.ud_ind_od).mpts
          = << Rat(1, 2), Rat(1, 1) >>

(***************************************************************************)
(* The schedule of a horizon.  model.schedule holds what the period blocks *)
(* solved so far sum up to: the heat supplied by the receiver and the heat *)
(* drawn by the cycle, and for each device whether a period (or the        *)
(* initial condition) left it idle, not generating with no startup         *)
(* inventory, and the energy that the present run of consecutive starting  *)
(* periods since then allows.                                              *)
(***************************************************************************)
NoSchedule ==
    [ supply     |-> 0,
      draw       |-> 0,
      field_idle |-> FALSE,
      field_run  |-> 0,
      cycle_idle |-> FALSE,
      cycle_run  |-> 0 ]

\* the field is idle at the end of period tt (0: at the beginning of the
\* horizon)
FieldIdle(tt) ==
    IF tt = 0
    THEN model.is_field_generating_initial = 0 /\ model.initial_receiver_startup_inventory = 0
    ELSE csp.is_field_generating = 0 /\ csp.receiver_startup_inventory = 0

CycleIdle(tt) ==
    IF tt = 0
    THEN model.is_cycle_generating_initial = 0 /\ model.initial_cycle_startup_inventory = 0
    ELSE csp.is_cycle_generating = 0 /\ csp.cycle_startup_inventory = 0

\* the energy of the run of starting periods that block b continues or
\* begins: a run is counted from the period after an idle one
Run(idle_before, idle_now, run, starting, energy) ==
    IF starting = 1 /\ (idle_before \/ idle_now)
    THEN (IF idle_now THEN 0 ELSE run) + energy
    ELSE 0

\* the sums after block b of period tt + 1, of duration dt
Summed(sched, tt, b, dt) ==
    [ supply     |-> sched.supply + dt * b.receiver_thermal_power,
      draw       |-> sched.draw
                     + dt * (par.allowable_cycle_startup_power * b.is_cycle_starting
                             + b.cycle_thermal_power),
      field_idle |-> sched.field_idle \/ FieldIdle(tt),
      field_run  |-> Run(sched.field_idle, FieldIdle(tt), sched.field_run,
                         b.is_field_starting, dt * par.allowable_receiver_startup_power),
      cycle_idle |-> sched.cycle_idle \/ CycleIdle(tt),
      cycle_run  |-> Run(sched.cycle_idle, CycleIdle(tt), sched.cycle_run,
                         b.is_cycle_starting, dt * par.allowable_cycle_startup_power) ]

InitSchedule ==
    /\ par \in ParameterSets
    /\ time_duration \in Durations
    /\ available_thermal_generation = 0
    /\ cycle_ambient_efficiency_correction = FracDen
    /\ condenser_losses = 0
    /\ model \in { ic @@ [schedule |-> NoSchedule] : ic \in InitialConditions }
    /\ t = 0
    /\ csp = NoBlock
    /\ system_model = NoSystemModel
    /\ raised = "None"

\* the next period block of the horizon is solved and added to the sums
SolveSchedulePeriod ==
    /\ t < Horizon
    /\ \E atg \in Forecast :
          /\ time_duration' = time_duration
          /\ available_thermal_generation' = atg
          /\ cycle_ambient_efficiency_correction' = FracDen
          /\ condenser_losses' = FracDen
          /\ SolveBlock(t + 1, BlockParams(time_duration, atg, FracDen, FracDen))
          /\ t' = t + 1
          /\ model' = [model EXCEPT !.schedule = Summed(@, t, csp', time_duration)]
          /\ UNCHANGED << par, system_model, raised >>

NextSchedule == SolveSchedulePeriod

SpecSchedule == InitSchedule /\ [][NextSchedule]_vars

\* C28: a device (field or cycle) that a period left not generating and
\* with no startup inventory begins to generate only in a period in which
\* it is starting, at the end of a run of consecutive starting periods whose
\* total duration times the allowable startup power is at least the
\* required startup energy, that is at least ceil(required / (duration *
\* allowable)) periods of constant duration; a period without the starting
\* flag leaves an inventory of 0
C28_MinimumStartup ==
    Solved =>
        /\ (model.schedule.field_idle /\ csp.is_field_generating = 1
                                      /\ csp.was_field_generating = 0) =>
              /\ csp.is_field_starting = 1
              /\ model.schedule.field_run >= par.receiver_required_startup_energy
              /\ (model.schedule.field_run
                    \div (time_duration * par.allowable_receiver_startup_power))
                 * time_duration * par.allowable_receiver_startup_power
                     >= par.receiver_required_startup_energy
        /\ (model.schedule.cycle_idle /\ csp.is_cycle_generating = 1
                                      /\ csp.was_cycle_generating = 0) =>
              /\ csp.is_cycle_starting = 1
              /\ model.schedule.cycle_run >= par.cycle_required_startup_energy
              /\ (model.schedule.cycle_run
                    \div (time_duration * par.allowable_cycle_startup_power))
                 * time_duration * par.allowable_cycle_startup_power
                     >= par.cycle_required_startup_energy
        /\ csp.is_field_starting = 0 => csp.receiver_startup_inventory = 0
        /\ csp.is_cycle_starting = 0 => csp.cycle_startup_inventory = 0

\* hourly periods: the field, idle at the beginning of the horizon,
\* generates in the second of two starting periods, and so does the cycle
C28_Witness ==
    /\ t = 2
    /\ time_duration = 1
    /\ model.schedule.field_idle
    /\ csp.is_field_generating = 1
    /\ csp.was_field_generating = 0
    /\ csp.was_field_starting = 1
    /\ csp.is_field_starting = 1
    /\ model.schedule.field_run = par.receiver_required_startup_energy
    /\ model.schedule.cycle_idle
    /\ csp.is_cycle_generating = 1
    /\ csp.was_cycle_generating = 0
    /\ csp.is_cycle_starting = 1
    /\ model.schedule.cycle_run = par.cycle_required_startup_energy

\* C29: for every period T of a schedule, thermal_energy_storage[T] minus
\* the initial storage is the sum over the periods up to T of duration *
\* (receiver thermal power - allowable cycle startup power * is_cycle_starting
\* - cycle thermal power); so the heat drawn by the cycle and its startups
\* up to T is at most the initial storage plus the heat supplied by the
\* receiver, and the net charge at most the capacity minus the initial
\* storage
C29_EnergyConservation ==
    Solved =>
        /\ csp.thermal_energy_storage - model.initial_thermal_energy_storage =
              model.schedule.supply - model.schedule.draw
        /\ model.schedule.draw <=
              model.initial_thermal_energy_storage + model.schedule.supply
        /\ model.schedule.supply - model.schedule.draw <=
              par.storage_capacity - model.initial_thermal_energy_storage

\* at the end of the horizon the storage has been charged, a cycle startup
\* and the cycle have drawn heat
C29_Witness ==
    /\ t = Horizon
    /\ model.schedule.supply > 0
    /\ model.schedule.draw > model.schedule.supply
    /\ csp.is_cycle_generating = 1
    /\ csp.thermal_energy_storage < model.initial_thermal_energy_storage
====
